---- MODULE Spec2Model ----
(***************************************************************************)
(* Provider framework of HierarchyBrowserv2 (providers/base.py): the       *)
(* command pipeline engine (GroupBy / Show / Search over a listing) and    *)
(* the line-delimited JSON request handler.                                *)
(*                                                                         *)
(* A Python str is a sequence of atoms.  The atoms "/", "<", ">" and ":"   *)
(* are those single characters; every other atom is a run of characters    *)
(* that contains none of the four.  Optional[str] is <<>> (None) or <<s>>. *)
(***************************************************************************)
EXTENDS Integers, Sequences, FiniteSets, TLC

VARIABLES
    listing,   \* the backend's leaves under /part, as list_for_base returns them
    allowed,   \* the provider's allowed_group_fields: None or Some(set of names)
    pc,        \* the client's position: "idle", "replied", "drilled"
    request,   \* the id of the last GetObjects request
    reply,     \* the payload answered to it
    reqBase,   \* the base path the client composed the last request from
    reqTokens, \* and the command tokens it appended, as (cmd, prop, value)
    group,     \* the group object the client entered last, if any
    conn,      \* per connection: the state of its JsonLineHandler
    search_status,  \* ModulesProvider._search_status: search id -> "running" / "done"
    search_results, \* ModulesProvider._search_results: search id -> list of software
    uuids,          \* how many ids uuid.uuid4() has generated
    handles,        \* the WPLmodSearchHandle objects returned to clients so far
    caller,         \* per calling thread: its position in search() and its locals
    workers,        \* the live _run_module_spider threads
    nav_stack,       \* MainWindow.nav_stack: the entries entered below the root
    current_host,    \* MainWindow.current_host
    current_port,    \* MainWindow.current_port
    current_objects, \* the request whose reply the icon view displays
    breadcrumb,      \* the parts handed to the breadcrumb bar by set_path
    sent,            \* the requests the last UI event sent, in order
    executed,        \* the context action the last UI event executed, if any
    event,           \* the last UI event handled
    root_host,       \* MainWindow.root_host
    root_port,       \* MainWindow.root_port
    root_name,       \* MainWindow.root_name
    selected_item,        \* MainWindow.selected_item: the selected tile, if any
    current_details_obj,  \* MainWindow._current_details_obj
    icon_store,      \* MainWindow.icon_store: whose image a filename maps to
    rendered,        \* the image the tiles of the displayed listing were built with
    populated,       \* what populate_objects was given: the "reply" or "empty"
    raised,          \* whether the last UI event's handler raised
    failed,          \* the methods whose calls failed during the last UI event
    deeplink,        \* the --path the browser was started with, if any
    received,        \* an object dict as it travels in a listing reply
    typed,           \* the object built from it, or the object a provider built
    shown,           \* the dict the second conversion produced
    stage,           \* how far the conversion of that object has come
    args,            \* the arguments of a call of a pure function
    result,          \* what the call returned, once it has
    icon_mode        \* MainWindow.icon_mode: tiles (TRUE) or the table (FALSE)

engineVars == <<listing, allowed, pc, request, reply, reqBase, reqTokens, group, conn>>
searchVars == <<search_status, search_results, uuids, handles, caller, workers>>
navVars == <<nav_stack, current_host, current_port, current_objects, breadcrumb,
             sent, executed, event>>
rootVars == <<root_host, root_port, root_name>>
viewVars == <<selected_item, current_details_obj, icon_store, rendered,
              populated, raised, failed>>
linkVars == <<deeplink>>
objectVars == <<received, typed, shown, stage>>
callVars == <<args, result>>
modeVars == <<icon_mode>>
uiVars == <<navVars, rootVars, viewVars, linkVars, objectVars, callVars, modeVars>>
vars == <<engineVars, searchVars, uiVars>>

\* ------------------------------------------------------------------ bounds
MaxLeaves == 2
MaxTokens == 3
MaxSearches == 1   \* initial search() calls, i.e. ids generated
MaxWorkers == 2    \* search() calls in flight plus live worker threads

\* ------------------------------------------------------- Python str helpers
None == <<>>
Some(s) == <<s>>

RECURSIVE Lstrip(_)
Lstrip(s) == IF s # <<>> /\ Head(s) = "/" THEN Lstrip(Tail(s)) ELSE s

StartsWith(s, a) == s # <<>> /\ s[1] = a
EndsWith(s, a) == s # <<>> /\ s[Len(s)] = a

\* positions where the two-character text "/<" starts
SlashLt(s) == {i \in 1..(Len(s) - 1) : s[i] = "/" /\ s[i + 1] = "<"}
MaxOf(S) == CHOOSE m \in S : \A x \in S : x <= m
MinOf(S) == CHOOSE m \in S : \A x \in S : m <= x

Colons(s) == {i \in 1..Len(s) : s[i] = ":"}

\* s.split(":", 1)
Split1(s) ==
    IF Colons(s) = {} THEN <<s>>
    ELSE LET i == MinOf(Colons(s))
         IN <<SubSeq(s, 1, i - 1), SubSeq(s, i + 1, Len(s))>>

\* s.split(":", 2)
Split2(s) ==
    IF Len(Split1(s)) = 1 THEN Split1(s)
    ELSE <<Split1(s)[1]>> \o Split1(Split1(s)[2])

\* str.lower() on the atoms that carry capitals
LowerAtom(a) ==
    CASE a = "True" -> "true"
      [] a = "WPObject" -> "wpobject"
      [] a = "WPGroup" -> "wpgroup"
      [] a = "Group" -> "group"
      [] a = "OpenAction" -> "openaction"
      [] OTHER -> a
Lower(s) == [i \in 1..Len(s) |-> LowerAtom(s[i])]

\* needle in hay
Contains(hay, needle) ==
    \E i \in 0..(Len(hay) - Len(needle)) :
        SubSeq(hay, i + 1, i + Len(needle)) = needle

\* ------------------------------------------------------------ Python values
\* t is the Python type; s is the text of a str; n the number of an int or
\* bool (True is 1).  A value of type "list" stands for a list or dict.
NoneValue == [t |-> "none", s |-> <<>>, n |-> 0]
StrV(s) == [t |-> "str", s |-> s, n |-> 0]
IntV(n) == [t |-> "int", s |-> <<>>, n |-> n]
BoolV(b) == [t |-> "bool", s |-> <<>>, n |-> IF b THEN 1 ELSE 0]
ListV == [t |-> "list", s |-> <<>>, n |-> 0]

Digit(d) == <<"0", "1", "2", "3", "4", "5", "6", "7", "8", "9">>[d + 1]
RECURSIVE IntStr(_)
IntStr(n) == IF n < 10 THEN <<Digit(n)>> ELSE IntStr(n \div 10) \o <<Digit(n % 10)>>

\* str(v)
Str(v) ==
    CASE v.t = "str" -> v.s
      [] v.t = "int" -> IntStr(v.n)
      [] v.t = "bool" -> IF v.n = 1 THEN <<"True">> ELSE <<"False">>
      [] v.t = "list" -> <<"[", "'x'", "]">>
      [] OTHER -> <<"None">>

\* bool(v)
Truthy(v) ==
    CASE v.t = "str" -> v.s # <<>>
      [] v.t \in {"int", "bool"} -> v.n # 0
      [] v.t = "list" -> TRUE
      [] OTHER -> FALSE

\* a == b and hash(a) == hash(b), as a dict decides whether two keys are one
KeyEq(a, b) ==
    \/ a.t = "str" /\ b.t = "str" /\ a.s = b.s
    \/ a.t \in {"int", "bool"} /\ b.t \in {"int", "bool"} /\ a.n = b.n
Hashable(v) == v.t # "list"

\* ------------------------------------------------- command pipeline parsing
Token(cmd, prop, value) == [cmd |-> cmd, prop |-> prop, value |-> value]

\* parts = token.split(":", 2); (cmd, prop, value)
MakeToken(text) ==
    LET parts == Split2(text)
    IN Token(parts[1],
             IF Len(parts) >= 2 THEN Some(parts[2]) ELSE None,
             IF Len(parts) = 3 THEN Some(parts[3]) ELSE None)

\* the while loop of _parse_command_pipeline
RECURSIVE PeelTokens(_, _)
PeelTokens(base, tokens) ==
    IF ~EndsWith(base, ">") THEN <<base, tokens>>
    ELSE IF SlashLt(base) # {}
         THEN LET i == MaxOf(SlashLt(base))
                  head == SubSeq(base, 1, i - 1)
                  tail == SubSeq(base, i + 2, Len(base))
              IN PeelTokens(head, <<MakeToken(SubSeq(tail, 1, Len(tail) - 1))>> \o tokens)
         ELSE IF StartsWith(base, "<")
              THEN PeelTokens(<<>>, <<MakeToken(SubSeq(base, 2, Len(base) - 1))>> \o tokens)
              ELSE <<base, tokens>>

\* _parse_command_pipeline(path_str) = (base, tokens)
ParseCommandPipeline(path_str) ==
    LET peeled == PeelTokens(Lstrip(path_str), <<>>)
        base == peeled[1]
    IN <<IF base = <<>> THEN <<"/">>
         ELSE IF StartsWith(path_str, "/") /\ ~StartsWith(base, "/") THEN <<"/">> \o base
         ELSE base,
         peeled[2]>>

\* the while loop of _normalize_groupby_show_tokens, from index i
\* a normalization that collapses the pair onto its GroupBy
RECURSIVE NormalizeKeepGroupBy(_, _)
NormalizeKeepGroupBy(tokens, i) ==
    IF i > Len(tokens) THEN <<>>
    ELSE IF /\ tokens[i].cmd = <<"GroupBy">>
            /\ i + 1 <= Len(tokens)
            /\ tokens[i + 1].cmd = <<"Show">>
            /\ tokens[i + 1].prop = tokens[i].prop
            /\ tokens[i + 1].value # None
         THEN <<tokens[i]>> \o NormalizeKeepGroupBy(tokens, i + 2)
         ELSE <<tokens[i]>> \o NormalizeKeepGroupBy(tokens, i + 1)

RECURSIVE NormalizeFrom(_, _)
NormalizeFrom(tokens, i) ==
    IF i > Len(tokens) THEN <<>>
    ELSE IF /\ tokens[i].cmd = <<"GroupBy">>
            /\ i + 1 <= Len(tokens)
            /\ tokens[i + 1].cmd = <<"Show">>
            /\ tokens[i + 1].prop = tokens[i].prop
            /\ tokens[i + 1].value # None
         THEN <<tokens[i + 1]>> \o NormalizeFrom(tokens, i + 2)
         ELSE <<tokens[i]>> \o NormalizeFrom(tokens, i + 1)

NormalizeGroupbyShowTokens(tokens) == NormalizeFrom(tokens, 1)

\* ------------------------------------------------------------ object model
\* to_dict() of an object: the quintuple and the extras the providers emit.
\* An extra that is None is left out of the dict by _extra_fields; .get()
\* gives None for a missing key as for a None value, so one record serves.
Dict(class, id, title, icon, objects, userid, cpus) ==
    [class |-> StrV(class), id |-> StrV(id), title |-> StrV(title), icon |-> icon,
     objects |-> IntV(objects), userid |-> userid, cpus |-> cpus]

\* d.get(prop)
DictGet(d, prop) ==
    IF Len(prop) = 1 /\ prop[1] \in DOMAIN d THEN d[prop[1]] ELSE NoneValue

GroupIcon == <<".", "/", "resources", "/", "Group.png">>

\* WPGroup(id, title, icon, objects).to_dict()
WPGroup(id, title, icon, objects) ==
    Dict(<<"WPGroup">>, id, title, StrV(icon), objects, NoneValue, NoneValue)

\* ProviderObject.search(prop_string, value_string) on the object's dict
ObjSearch(d, prop_string, value_string) ==
    LET needle_lc == Lower(value_string)
    IN IF prop_string = <<"all">>
       THEN \E k \in DOMAIN d :
                d[k] # NoneValue /\ Contains(Lower(Str(d[k])), needle_lc)
       ELSE /\ DictGet(d, prop_string) # NoneValue
            /\ Contains(Lower(Str(DictGet(d, prop_string))), needle_lc)

\* --------------------------------------------------------------- the backend
JobIcon == StrV(<<".", "/", "resources", "/", "Job.png">>)
PartBase == <<"/", "part">>
LeafName(i) == <<"j1", "j2", "j3", "j4">>[i]

\* the i-th job of the partition: its userid comes from the scheduler
Leaf(i, userid) ==
    Dict(<<"WPSlurmJob">>, PartBase \o <<"/", LeafName(i)>>, <<LeafName(i)>>, JobIcon, 0,
         userid, IntV(1 + (i % 2)))

\* the root listing: the partition itself
RootListing ==
    <<Dict(<<"WPSlurmPartition">>, PartBase, <<"part">>, JobIcon, Len(listing),
           NoneValue, NoneValue)>>

\* list_for_base(base) of the provider
ListForBase(base) ==
    IF base = PartBase THEN listing
    ELSE IF base = <<"/">> THEN RootListing
    ELSE <<>>

\* ------------------------------------------------------ pipeline evaluation
\* A call either returns a list of dicts or raises.
Objects(seq) == [exc |-> FALSE, objects |-> seq]
Raise == [exc |-> TRUE, objects |-> <<>>]

\* the members whose property prop is not None and stringifies to value
\* a filter that compares without stringifying: only str values can match
ShowFilterStrOnly(objs, prop, value) ==
    SelectSeq(objs, LAMBDA o : DictGet(o, prop).t = "str" /\ DictGet(o, prop).s = value)

ShowFilter(objs, prop, value) ==
    SelectSeq(objs, LAMBDA o : DictGet(o, prop) # NoneValue /\ Str(DictGet(o, prop)) = value)

\* a count that records a value once and never increments it
CountsPutNoIncrement(counts, v) ==
    IF \E j \in 1..Len(counts) : KeyEq(counts[j].key, v)
    THEN counts
    ELSE Append(counts, [key |-> v, count |-> 1])

\* counts[v] = counts.get(v, 0) + 1: counts is the dict in insertion order
CountsPut(counts, v) ==
    IF \E j \in 1..Len(counts) : KeyEq(counts[j].key, v)
    THEN [j \in 1..Len(counts) |->
            IF KeyEq(counts[j].key, v)
            THEN [key |-> counts[j].key, count |-> counts[j].count + 1]
            ELSE counts[j]]
    ELSE Append(counts, [key |-> v, count |-> 1])

RECURSIVE CountsOf(_, _, _)
CountsOf(objs, prop, counts) ==
    IF objs = <<>> THEN counts
    ELSE LET v == DictGet(Head(objs), prop)
         IN CountsOf(Tail(objs), prop, IF v = NoneValue THEN counts ELSE CountsPut(counts, v))

\* id = f"{path_str}/<Show:{prop}:{value}>", one leading "/" of "//" dropped
GroupId(path_str, prop, value) ==
    LET id == path_str \o <<"/", "<", "Show", ":">> \o prop \o <<":">> \o Str(value) \o <<">">>
    IN IF Len(id) >= 2 /\ id[1] = "/" /\ id[2] = "/" THEN Tail(id) ELSE id

\* _group_objects_by_property with make_group = None (no provider passes one)
GroupObjectsByProperty(objs, prop, group_icon_filename, path_str) ==
    IF \E i \in 1..Len(objs) :
          DictGet(objs[i], prop) # NoneValue /\ ~Hashable(DictGet(objs[i], prop))
    THEN Raise  \* TypeError: unhashable type
    ELSE LET counts == CountsOf(objs, prop, <<>>)
         IN Objects([j \in 1..Len(counts) |->
                WPGroup(GroupId(path_str, prop, counts[j].key), Str(counts[j].key),
                        group_icon_filename, counts[j].count)])

\* a filter test that lets a Search token pass as a filter
IsShowOrSearch(t) == t.cmd \in {<<"Show">>, <<"Search">>} /\ t.prop # None /\ t.value # None

\* cmd == "Show" and isinstance(prop, str) and value is not None
IsShow(t) == t.cmd = <<"Show">> /\ t.prop # None /\ t.value # None

\* "for cmd, prop, value in tokens: if cmd != Show: continue; filter"
RECURSIVE ApplyShows(_, _)
ApplyShows(objs, tokens) ==
    IF tokens = <<>> THEN objs
    ELSE IF Head(tokens).cmd # <<"Show">> THEN ApplyShows(objs, Tail(tokens))
         ELSE ApplyShows(
                 IF Head(tokens).prop = None \/ Head(tokens).value = None
                 THEN <<>>  \* od.get(None) is None, str(vv) == str(None) never holds for vv not None
                 ELSE ShowFilter(objs, Head(tokens).prop[1], Head(tokens).value[1]),
                 Tail(tokens))

\* the trailing (or only) GroupBy, with the provider's whitelist
TrailingGroupBy(objs, prop, allowed_group_fields, group_icon_filename, path_str) ==
    IF allowed_group_fields # None /\ prop \notin allowed_group_fields[1] THEN Objects(<<>>)
    ELSE GroupObjectsByProperty(objs, prop, group_icon_filename, path_str)

\* the single-command branch
SingleCommand(t, objs, allowed_group_fields, group_icon_filename, path_str) ==
    IF t.cmd = <<"GroupBy">> /\ t.prop # None
    THEN TrailingGroupBy(objs, t.prop[1], allowed_group_fields, group_icon_filename, path_str)
    ELSE IF IsShow(t)
    THEN Objects(ShowFilter(objs, t.prop[1], t.value[1]))
    ELSE IF t.cmd = <<"Search">>
    THEN LET legacy == t.value # None /\ Colons(t.value[1]) # {}
             prop_string == IF legacy THEN Split1(t.value[1])[1]
                            ELSE IF t.prop # None THEN t.prop[1] ELSE <<"all">>
             value_string == IF legacy THEN Split1(t.value[1])[2]
                             ELSE IF t.value # None THEN t.value[1] ELSE <<>>
         IN Objects(SelectSeq(objs, LAMBDA o : ObjSearch(o, prop_string, value_string)))
    ELSE Objects(<<>>)

\* index of the nearest GroupBy before the last token, 0 when there is none
GbIndex(tokens) ==
    LET S == {i \in 1..(Len(tokens) - 1) : tokens[i].cmd = <<"GroupBy">>}
    IN IF S = {} THEN 0 ELSE MaxOf(S)

\* the special case "Show* -> GroupBy:P -> Show:P:V" applies
\* a drill case that does not compare the GroupBy's property with the Show's
DrillCaseAnyProp(tokens) ==
    LET last == tokens[Len(tokens)]
        gb == GbIndex(tokens)
    IN /\ IsShow(last)
       /\ gb # 0
       /\ tokens[gb].prop # None

DrillCase(tokens) ==
    LET last == tokens[Len(tokens)]
        gb == GbIndex(tokens)
    IN /\ IsShow(last)
       /\ gb # 0
       /\ tokens[gb].prop # None
       /\ tokens[gb].prop = last.prop

\* the general case: Show filters, then the trailing token
RECURSIVE GeneralCase(_, _, _, _, _)
GeneralCase(objs, tokens, allowed_group_fields, group_icon_filename, path_str) ==
    IF Len(tokens) = 1
    THEN LET last == tokens[1]
         IN IF last.cmd = <<"GroupBy">> /\ last.prop # None
            THEN TrailingGroupBy(objs, last.prop[1], allowed_group_fields, group_icon_filename, path_str)
            ELSE IF IsShow(last)
            THEN Objects(ShowFilter(objs, last.prop[1], last.value[1]))
            ELSE Objects(<<>>)
    ELSE IF ~IsShow(Head(tokens)) THEN Objects(<<>>)
         ELSE GeneralCase(ShowFilter(objs, Head(tokens).prop[1], Head(tokens).value[1]),
                          Tail(tokens), allowed_group_fields, group_icon_filename, path_str)

MultiCommand(tokens, objs, allowed_group_fields, group_icon_filename, path_str) ==
    IF DrillCase(tokens)
    THEN IF \E j \in 1..(Len(tokens) - 1) : j # GbIndex(tokens) /\ ~IsShow(tokens[j])
         THEN Objects(<<>>)
         ELSE Objects(ApplyShows(objs, tokens))
    ELSE GeneralCase(objs, tokens, allowed_group_fields, group_icon_filename, path_str)

\* ObjectProvider.build_objects_for_path; list_for_base(base) is ListForBase
BuildObjectsForPath(path_str, allowed_group_fields, group_icon_filename) ==
    LET parsed == ParseCommandPipeline(path_str)
        base_clean == parsed[1]
        tokens == NormalizeGroupbyShowTokens(parsed[2])
    IN IF tokens = <<>> THEN Objects(ListForBase(base_clean))
       ELSE IF Len(tokens) = 1
       THEN SingleCommand(tokens[1], ListForBase(base_clean), allowed_group_fields,
                          group_icon_filename, path_str)
       ELSE MultiCommand(tokens, ListForBase(base_clean), allowed_group_fields,
                         group_icon_filename, path_str)

\* -------------------------------------------------------- request messages
\* json.loads(line): a dict is a function from its keys to values, with
\* Absent for a key the dict does not have; a JSON null is NoneValue.
Absent == [t |-> "absent", s |-> <<>>, n |-> 0]
CandidateKeys == {"method", "message", "type", "command", "action"}
IdKeys == <<"id", "path", "object", "objectId", "ObjectId">>
MessageKeys == CandidateKeys \cup {"GetRootObjects", "GetInfo"} \cup {IdKeys[i] : i \in 1..5}

NoFields == [k \in MessageKeys |-> Absent]
StrMessage(text) == [json |-> "str", text |-> text, fields |-> NoFields]
DictMessage(fields) == [json |-> "dict", text |-> <<>>, fields |-> fields]
OtherMessage == [json |-> "other", text |-> <<>>, fields |-> NoFields]

\* message.get(k)
MsgGet(message, k) ==
    IF message.fields[k] = Absent THEN NoneValue ELSE message.fields[k]

\* any(message.get(k) == name for k in candidate_keys)
AnyCandidate(message, name) ==
    \E k \in CandidateKeys : MsgGet(message, k) = StrV(<<name>>)

\* a legacy-key test that looks at the key only, not at its value
LegacyKeyAnyValue(message, name) == message.fields[name] # Absent

\* the legacy form {"GetRootObjects": ...} / {"GetInfo": ...}
LegacyKey(message, name) ==
    /\ message.fields[name] # Absent
    /\ (MsgGet(message, name) # NoneValue => Truthy(MsgGet(message, name)))

IsGetRootObjects(message) ==
    CASE message.json = "str" -> message.text = <<"GetRootObjects">>
      [] message.json = "dict" ->
            AnyCandidate(message, "GetRootObjects") \/ LegacyKey(message, "GetRootObjects")
      [] OTHER -> FALSE

IsGetInfo(message) ==
    CASE message.json = "str" -> message.text = <<"GetInfo">>
      [] message.json = "dict" ->
            AnyCandidate(message, "GetInfo") \/ LegacyKey(message, "GetInfo")
      [] OTHER -> FALSE

IsGetObjects(message) ==
    CASE message.json = "dict" -> AnyCandidate(message, "GetObjects")
      [] message.json = "str" -> message.text = <<"GetObjects">>
      [] OTHER -> FALSE

\* extract_object_id: the first of the id keys that holds a str, else None
RECURSIVE ExtractFrom(_, _)
ExtractFrom(message, i) ==
    IF i > Len(IdKeys) THEN None
    ELSE IF MsgGet(message, IdKeys[i]).t = "str" THEN Some(MsgGet(message, IdKeys[i]).s)
    ELSE ExtractFrom(message, i + 1)

ExtractObjectId(message) ==
    IF message.json = "dict" THEN ExtractFrom(message, 1) ELSE None

\* ----------------------------------------------------------------- payloads
ObjectsPayload(objs) == [kind |-> "objects", objects |-> objs, error |-> ""]
ErrorPayload(text) == [kind |-> "error", objects |-> <<>>, error |-> text]
InfoPayload == [kind |-> "info", objects |-> <<>>, error |-> ""]

\* get_root_objects_payload of the provider; fails: the backend raises
GetRootObjectsPayload(fails) ==
    IF fails THEN Raise ELSE Objects(RootListing)

\* get_objects_for_path of the provider; fails: list_for_base raises
GetObjectsForPath(path_str, fails) ==
    IF fails THEN Raise
    ELSE BuildObjectsForPath(path_str, allowed, GroupIcon)

\* handle_message without its try/except: a backend exception propagates
HandleMessageNoTry(incoming, fails) ==
    IF IsGetRootObjects(incoming)
    THEN IF GetRootObjectsPayload(fails).exc
         THEN [kind |-> "raise", objects |-> <<>>, error |-> ""]
         ELSE ObjectsPayload(GetRootObjectsPayload(fails).objects)
    ELSE IF IsGetInfo(incoming) THEN InfoPayload
    ELSE IF IsGetObjects(incoming)
    THEN LET object_id == ExtractObjectId(incoming)
         IN IF object_id = None \/ object_id = Some(<<>>)
            THEN ErrorPayload("Missing id")
            ELSE IF GetObjectsForPath(object_id[1], fails).exc
                 THEN [kind |-> "raise", objects |-> <<>>, error |-> ""]
                 ELSE ObjectsPayload(GetObjectsForPath(object_id[1], fails).objects)
    ELSE ErrorPayload("Unknown message")

\* ObjectProvider.handle_message
HandleMessage(incoming, fails) ==
    IF IsGetRootObjects(incoming)
    THEN IF GetRootObjectsPayload(fails).exc
         THEN ErrorPayload("Failed to serve objects")
         ELSE ObjectsPayload(GetRootObjectsPayload(fails).objects)
    ELSE IF IsGetInfo(incoming) THEN InfoPayload
    ELSE IF IsGetObjects(incoming)
    THEN LET object_id == ExtractObjectId(incoming)
         IN IF object_id = None \/ object_id = Some(<<>>)
            THEN ErrorPayload("Missing id")
            ELSE IF GetObjectsForPath(object_id[1], fails).exc
                 THEN ErrorPayload("Failed to list objects")
                 ELSE ObjectsPayload(GetObjectsForPath(object_id[1], fails).objects)
    ELSE ErrorPayload("Unknown message")

\* ------------------------------------------------------------ the requests
Userid == <<"userid">>
Cpus == <<"cpus">>

\* what the backend may report as a job's userid
UserValues == {NoneValue, StrV(<<"1">>), IntV(1), BoolV(TRUE), ListV}

Listings ==
    UNION {[1..n -> UserValues] : n \in 0..MaxLeaves}

\* the command tokens a client composes
ClientTokens ==
    { Token(<<"GroupBy">>, Some(Userid), None),
      Token(<<"Show">>, Some(Userid), Some(<<"1">>)),
      Token(<<"Show">>, Some(Cpus), Some(<<"1">>)),
      Token(<<"Search">>, Some(<<"all">>), Some(<<"j1">>)) }

\* the path segment <Cmd:Prop:Value> of a token
TokenText(t) ==
    <<"<">> \o t.cmd \o (IF t.prop = None THEN <<>> ELSE <<":">> \o t.prop[1])
        \o (IF t.value = None THEN <<>> ELSE <<":">> \o t.value[1]) \o <<">">>

Pipelines == UNION {[1..n -> ClientTokens] : n \in 0..MaxTokens}

\* base.rstrip("/") + "/" + token, for each token in turn
RECURSIVE JoinPath(_, _)
JoinPath(b, ts) ==
    IF ts = <<>> THEN b
    ELSE JoinPath((IF b = <<"/">> THEN <<>> ELSE b) \o <<"/">> \o TokenText(Head(ts)), Tail(ts))

GetObjectsMessage(id) ==
    DictMessage([NoFields EXCEPT !["method"] = StrV(<<"GetObjects">>), !["id"] = StrV(id)])

NoGroup == WPGroup(<<>>, <<>>, <<>>, 0)

\* ------------------------------------------- the connection handler's state
Conns == {"c1", "c2"}
NewConn ==
    [pc |-> "accepted", incoming |-> OtherMessage, failed |-> FALSE,
     listed |-> FALSE, out |-> <<>>]

\* does handle_message call the backend for this message
Listed(message) ==
    \/ IsGetRootObjects(message)
    \/ /\ ~IsGetInfo(message)
       /\ IsGetObjects(message)
       /\ ExtractObjectId(message) \notin {None, Some(<<>>)}

\* ------------------------------------- the Modules provider's search store
\* a Python dict as a function whose domain is its key set
DictPut(d, k, v) == [x \in (DOMAIN d) \cup {k} |-> IF x = k THEN v ELSE d[x]]
EmptyDict == [x \in {} |-> 0]

BoxIcon == <<".", "/", "resources", "/", "Box.png">>

\* to_dict() of the search objects; state is "" and search_string <<>> for a
\* class that has no such field
SearchObject(class, id, title, state, objects, search_string, recursive) ==
    [class |-> class, id |-> id, title |-> title, icon |-> BoxIcon, state |-> state,
     objects |-> objects, search_string |-> search_string, recursive |-> recursive]

WPLmodSearchHandle(id, search_input, recursive) ==
    SearchObject("WPLmodSearchHandle", id, <<"Searching for '">> \o search_input \o <<"'...">>,
                 "", 0, search_input, recursive)

\* a progress object that takes the search id itself as its id
ProgressWithHandleId(search_id, title, state, objects) ==
    SearchObject("WPLmodSearchProgress", search_id, title, state, objects, <<>>, FALSE)

\* id = f"/search_progress/{search_id}"
WPLmodSearchProgress(search_id, title, state, objects) ==
    SearchObject("WPLmodSearchProgress", <<"/", "search_progress", "/">> \o search_id,
                 title, state, objects, <<>>, FALSE)

OngoingProgress(search_id, search_input) ==
    WPLmodSearchProgress(search_id, <<"Searching for '">> \o search_input \o <<"'...">>,
                         "ongoing", 0)

\* a completion payload with the progress object after the results
CompletionResultsFirst(search_id, search_input, results) ==
    results \o <<[class |-> "WPLmodSearchProgress",
                  id |-> <<"/", "search_progress", "/">> \o search_id,
                  title |-> <<"Search for '">> \o search_input \o <<"' completed">>,
                  icon |-> BoxIcon, state |-> "done", objects |-> Len(results),
                  search_string |-> <<>>, recursive |-> FALSE]>>

\* completion_objects + results
CompletionObjects(search_id, search_input, results) ==
    <<WPLmodSearchProgress(search_id, <<"Search for '">> \o search_input \o <<"' completed">>,
                           "done", Len(results))>> \o results

\* a module that "module spider" reports for the search string
WPLmodSoftware(search_input, k) ==
    SearchObject("WPLmodSoftware", <<"/">> \o search_input \o <<"/", k>>,
                 search_input \o <<"/", k>>, "", 0, <<>>, FALSE)

\* str(uuid.uuid4()): the n-th id generated; ids do not repeat
Uuid(n) == <<<<"u1">>, <<"u2">>, <<"u3">>, <<"u4">>>>[n]
\* an id no search() call generated, sent by a client in a handle of its own
ForeignId == <<"x">>

\* the request body of the n-th initial call: search string and recursive flag
SearchBodies ==
    << [search |-> <<"python">>, recursive |-> TRUE],
       [search |-> <<"gcc">>, recursive |-> FALSE],
       [search |-> <<"python">>, recursive |-> FALSE] >>

\* what the spider command yields for a search string: the parsed list, or
\* an exception (a timeout, a failed launch); a non-zero exit is not one
SpiderOutcomes(search_input) ==
    { [raised |-> FALSE,
       list |-> <<WPLmodSoftware(search_input, "1.0"), WPLmodSoftware(search_input, "2.0")>>],
      [raised |-> TRUE, list |-> <<>>] }

Callers == {"a", "b"}
IdleCaller ==
    [pc |-> "idle", search_input |-> <<>>, recursive |-> FALSE, search_handle |-> None,
     search_id |-> <<>>, started |-> FALSE, out |-> <<>>]

SearchInit ==
    /\ search_status = EmptyDict
    /\ search_results = EmptyDict
    /\ uuids = 0
    /\ handles = {}
    /\ caller = [c \in Callers |-> IdleCaller]
    /\ workers = <<>>

\* ------------------------------------------ ModulesProvider.search, by steps
\* Threads interleave between the statements of search(); each action below
\* is one test or one assignment of the method.
InFlight == {c \in Callers : caller[c].pc \notin {"idle", "returned"}}
Room == Cardinality(InFlight) + Len(workers) < MaxWorkers

\* the handle objects a polling client may send: client "a" one it was
\* given, client "b" also one it made up itself
ForeignHandle == WPLmodSearchHandle(ForeignId, <<"python">>, TRUE)
PollHandles(c) == IF c = "a" THEN handles ELSE handles \cup {ForeignHandle}

\* search(search_input, recursive): no handle, search_id = str(uuid.uuid4())
InitialCall(c) ==
    /\ caller[c].pc \in {"idle", "returned"}
    /\ Room
    /\ uuids < MaxSearches
    /\ LET body == SearchBodies[uuids + 1]
       IN caller' = [caller EXCEPT ![c] =
            [pc |-> "check_done", search_input |-> body.search, recursive |-> body.recursive,
             search_handle |-> None, search_id |-> Uuid(uuids + 1), started |-> FALSE,
             out |-> <<>>]]
    /\ uuids' = uuids + 1
    /\ UNCHANGED <<engineVars, uiVars, search_status, search_results, handles, workers>>

\* search(search_input, recursive, search_handle): search_id = search_handle["id"];
\* the client sends the body of its first request again, with the handle
PollCall(c) ==
    /\ caller[c].pc \in {"idle", "returned"}
    /\ Room
    /\ \E h \in PollHandles(c) :
        caller' = [caller EXCEPT ![c] =
            [pc |-> "check_done", search_input |-> h.search_string, recursive |-> h.recursive,
             search_handle |-> Some(h), search_id |-> h.id, started |-> FALSE, out |-> <<>>]]
    /\ UNCHANGED <<engineVars, uiVars, search_status, search_results, uuids, handles, workers>>

\* if search_id in self._search_status and ... == "done": return completion
CheckDone(c) ==
    /\ caller[c].pc = "check_done"
    /\ LET id == caller[c].search_id
       IN IF id \in DOMAIN search_status /\ search_status[id] = "done"
          THEN caller' = [caller EXCEPT ![c].pc = "returned",
                              ![c].out = CompletionObjects(id, caller[c].search_input,
                                                           search_results[id])]
          ELSE caller' = [caller EXCEPT ![c].pc = "check_start"]
    /\ UNCHANGED <<engineVars, uiVars, search_status, search_results, uuids, handles, workers>>

\* if search_id not in self._search_status or ... != "running":
CheckStart(c) ==
    /\ caller[c].pc = "check_start"
    /\ LET id == caller[c].search_id
       IN caller' = [caller EXCEPT ![c].pc =
                        IF id \notin DOMAIN search_status \/ search_status[id] # "running"
                        THEN "set_status" ELSE "reply"]
    /\ UNCHANGED <<engineVars, uiVars, search_status, search_results, uuids, handles, workers>>

\* self._search_status[search_id] = "running"
SetRunning(c) ==
    /\ caller[c].pc = "set_status"
    /\ search_status' = DictPut(search_status, caller[c].search_id, "running")
    /\ caller' = [caller EXCEPT ![c].pc = "start_thread"]
    /\ UNCHANGED <<engineVars, uiVars, search_results, uuids, handles, workers>>

\* a start that resets the results but starts no thread
StartThreadNoWorker(c) ==
    /\ caller[c].pc = "start_thread"
    /\ search_results' = DictPut(search_results, caller[c].search_id, <<>>)
    /\ caller' = [caller EXCEPT ![c].pc = "reply", ![c].started = TRUE]
    /\ UNCHANGED <<engineVars, uiVars, search_status, uuids, handles, workers>>

\* self._search_results[search_id] = []; thread.start()
StartThread(c) ==
    /\ caller[c].pc = "start_thread"
    /\ search_results' = DictPut(search_results, caller[c].search_id, <<>>)
    /\ workers' = Append(workers, [search_id |-> caller[c].search_id,
                                   search_input |-> caller[c].search_input,
                                   pc |-> "run", raised |-> FALSE, software_list |-> <<>>])
    /\ caller' = [caller EXCEPT ![c].pc = "reply", ![c].started = TRUE]
    /\ UNCHANGED <<engineVars, uiVars, search_status, uuids, handles>>

\* the three returns after the start: the handle, the ongoing progress, or
\* the completion objects with self._search_results.get(search_id, [])
SearchReturn(c) ==
    /\ caller[c].pc = "reply"
    /\ LET id == caller[c].search_id
           results == IF id \in DOMAIN search_results THEN search_results[id] ELSE <<>>
           out == IF caller[c].search_handle = None
                  THEN <<WPLmodSearchHandle(id, caller[c].search_input, caller[c].recursive)>>
                  ELSE IF search_status[id] = "running"
                  THEN <<OngoingProgress(id, caller[c].search_input)>>
                  ELSE CompletionObjects(id, caller[c].search_input, results)
       IN /\ caller' = [caller EXCEPT ![c].pc = "returned", ![c].out = out]
          /\ handles' = IF caller[c].search_handle = None THEN handles \cup {out[1]} ELSE handles
    /\ UNCHANGED <<engineVars, uiVars, search_status, search_results, uuids, workers>>

\* --------------------------------------- ModulesProvider._run_module_spider
Without(seq, i) == SubSeq(seq, 1, i - 1) \o SubSeq(seq, i + 1, Len(seq))

\* subprocess.run(...) and _parse_module_spider_output, or an exception
SpiderRun(i) ==
    /\ i \in 1..Len(workers)
    /\ workers[i].pc = "run"
    /\ \E o \in SpiderOutcomes(workers[i].search_input) :
        workers' = [workers EXCEPT ![i].pc = "store", ![i].raised = o.raised,
                                   ![i].software_list = o.list]
    /\ UNCHANGED <<engineVars, uiVars, search_status, search_results, uuids, handles, caller>>

\* self._search_results[search_id] = software_list ([] in the except branch)
SpiderStore(i) ==
    /\ i \in 1..Len(workers)
    /\ workers[i].pc = "store"
    /\ search_results' = DictPut(search_results, workers[i].search_id, workers[i].software_list)
    /\ workers' = [workers EXCEPT ![i].pc = "mark"]
    /\ UNCHANGED <<engineVars, uiVars, search_status, uuids, handles, caller>>

\* self._search_status[search_id] = "done"; the thread ends
SpiderMark(i) ==
    /\ i \in 1..Len(workers)
    /\ workers[i].pc = "mark"
    /\ search_status' = DictPut(search_status, workers[i].search_id, "done")
    /\ workers' = Without(workers, i)
    /\ UNCHANGED <<engineVars, uiVars, search_results, uuids, handles, caller>>

\* -------------------------------------- the browser's navigation (MainWindow)
MaxDepth == 2   \* entries the user pushes on the nav stack

PROVIDER_HOST == "127.0.0.1"
PROVIDER_PORT == 8888
DefaultRootName == <<"Root">>
OtherHost == "h2"
OtherPort == 9000

DigitValue(a) == CHOOSE d \in 0..9 : Digit(d) = a
\* int(s) of a decimal text
RECURSIVE ParseInt(_)
ParseInt(s) ==
    IF Len(s) = 1 THEN DigitValue(s[1])
    ELSE 10 * ParseInt(SubSeq(s, 1, Len(s) - 1)) + DigitValue(s[Len(s)])

RECURSIVE Rstrip(_)
Rstrip(s) == IF s # <<>> /\ s[Len(s)] = "/" THEN Rstrip(SubSeq(s, 1, Len(s) - 1)) ELSE s

\* s.strip("/").split("/")[-1]
LastSegment(s) ==
    LET t == Rstrip(Lstrip(s))
        slashes == {i \in 1..Len(t) : t[i] = "/"}
    IN IF slashes = {} THEN t ELSE SubSeq(t, MaxOf(slashes) + 1, Len(t))

\* seg.startswith("<GroupBy:") / seg.startswith("<Show:")
StartsCommand(seg, cmd) ==
    Len(seg) >= 3 /\ seg[1] = "<" /\ seg[2] = cmd /\ seg[3] = ":"

\* the title of a pushed entry: command tokens are spelled out
HumanTitle(title, remote_id) ==
    LET seg == LastSegment(remote_id)
        parts == Split2(SubSeq(seg, 2, Len(seg) - 1))
    IN IF remote_id = <<>> THEN title
       ELSE IF StartsCommand(seg, "GroupBy") /\ EndsWith(seg, ">")
            THEN <<"Group by ">> \o SubSeq(seg, 4, Len(seg) - 1)
       ELSE IF StartsCommand(seg, "Show") /\ EndsWith(seg, ">") /\ Len(parts) = 3
            THEN <<"Show ">> \o parts[2] \o <<" = ">> \o parts[3]
       ELSE title

\* one entry of an openaction list; a missing key is None
ActionEntry(action, hostname, host, port) ==
    [action |-> action, hostname |-> hostname, host |-> host, port |-> port]
ObjectBrowser(hostname, host, port) ==
    ActionEntry(<<"objectbrowser">>, hostname, host, port)
Terminal == ActionEntry(<<"terminal">>, None, None, None)

\* an object of the icon view as the handlers read it: obj.get("id"),
\* obj.get("title") (None when it is not a str), obj.get("objects"),
\* obj.get("openaction") (None when the key is absent)
ViewObject(id, title, objects, openaction) ==
    [id |-> id, title |-> title, objects |-> objects, openaction |-> openaction]

PlainId == <<"/", "p">>
GroupById == <<"/", "p", "/", "<", "GroupBy", ":", "userid", ">">>
ShowId == <<"/", "p", "/", "<", "Show", ":", "userid", ":", "alice", ">">>
ShortShowId == <<"/", "p", "/", "<", "Show", ":", "userid", ">">>

SwitchActions ==
    { Some(<<ObjectBrowser(Some(OtherHost), None, Some(OtherPort))>>),
      Some(<<ObjectBrowser(None, Some(OtherHost), None)>>),
      Some(<<ObjectBrowser(None, None, Some(OtherPort))>>),
      Some(<<ObjectBrowser(None, None, None)>>),
      Some(<<Terminal, ObjectBrowser(Some(OtherHost), None, Some(OtherPort))>>) }
PlainActions == {None, Some(<<>>), Some(<<Terminal>>)}

\* the objects a listing may show
ViewObjects ==
    { ViewObject(PlainId, Some(<<"P">>), n, oa) :
        n \in {0, 2}, oa \in SwitchActions \cup PlainActions }
    \cup { ViewObject(id, Some(<<"G">>), 2, oa) :
        id \in {GroupById, ShowId},
        oa \in {None, Some(<<ObjectBrowser(Some(OtherHost), None, Some(OtherPort))>>)} }
    \cup { ViewObject(ShortShowId, Some(<<"G">>), 2, None),
           ViewObject(PlainId, None, 2, None) }
NoObject == ViewObject(<<>>, None, 0, None)

\* the requests the browser sends
RootRequest(host, port) ==
    [method |-> "GetRootObjects", id |-> <<>>, host |-> host, port |-> port]
InfoRequest(host, port) ==
    [method |-> "GetInfo", id |-> <<>>, host |-> host, port |-> port]
ObjectsRequest(id, host, port) ==
    [method |-> "GetObjects", id |-> id, host |-> host, port |-> port]

\* the keys of the JSON payload fetch_objects, fetch_info and
\* fetch_objects_for_id send for a request
PayloadKeys(req) ==
    IF req.method = "GetObjects" THEN {"method", "id"} ELSE {"method"}

NavEntry(id, title, host, port, remote_id) ==
    [id |-> id, title |-> title, host |-> host, port |-> port,
     remote_id |-> remote_id]

\* _update_breadcrumb: the root's name, then the titles of the entries
BreadcrumbParts(stack) ==
    <<root_name>> \o [i \in 1..Len(stack) |-> stack[i].title]

UiEvent(kind, obj, index) == [kind |-> kind, obj |-> obj, index |-> index]

\* a provider endpoint; its GetInfo announces the image of the shared
\* filename './resources/Group.png', which the model names by the endpoint
Endpoint(host, port) == [host |-> host, port |-> port]

\* the methods whose calls fail during one UI event (refused, timeout, ...)
Failures == {{}, {"GetInfo"}, {"GetObjects"}, {"GetRootObjects"}}

\* variant used to test the selection property
KeptSelection == selected_item

\* self.selected_item = None
ClearedSelection == None

\* load_root / load_children: a failed fetch gives an empty listing;
\* populate_objects builds the tiles with the icons of the store; the
\* selection and the details panel are cleared
LoadListing(req, failing) ==
    /\ current_objects' = req
    /\ populated' = (IF req.method \in failing THEN "empty" ELSE "reply")
    /\ rendered' = (IF req.method \in failing THEN None ELSE icon_store')
    /\ selected_item' = ClearedSelection
    /\ current_details_obj' = None

\* add_icons_from_info(fetch_info(host, port)): the images of the endpoint
\* overwrite those stored under the same filenames; a failed call adds none
IconsAfterInfo(host, port, failing) ==
    IF "GetInfo" \in failing THEN icon_store ELSE Some(Endpoint(host, port))

\* MainWindow.__init__: an empty stack at the root endpoint, the root loaded
NavInit ==
    /\ root_host = PROVIDER_HOST
    /\ root_port = PROVIDER_PORT
    /\ root_name = DefaultRootName
    /\ icon_mode = TRUE
    /\ nav_stack = <<>>
    /\ current_host = root_host
    /\ current_port = root_port
    /\ current_objects = RootRequest(root_host, root_port)
    /\ breadcrumb = <<root_name>>
    /\ sent = <<RootRequest(root_host, root_port)>>
    /\ executed = None
    /\ event = UiEvent("start", NoObject, 0)
    /\ selected_item = None
    /\ current_details_obj = None
    /\ icon_store = Some(Endpoint(PROVIDER_HOST, PROVIDER_PORT))
    /\ rendered = icon_store
    /\ populated = "reply"
    /\ raised = FALSE
    /\ failed = {}
    /\ deeplink = None

\* the truthy one of entry.get("hostname") or entry.get("host")
CandidateHost(entry) ==
    IF entry.hostname # None THEN entry.hostname ELSE entry.host

\* perform_openaction on a non-empty openaction list: the first entry decides.
\* Its objectbrowser branch reads the local title before assigning it, which
\* raises UnboundLocalError before anything is pushed or sent; any other
\* action goes to execute_context_action.
PerformOpenaction(obj) ==
    LET entry == obj.openaction[1][1]
    IN IF Lower(entry.action) = <<"objectbrowser">>
       THEN [raised |-> TRUE, executed |-> None]
       ELSE [raised |-> FALSE, executed |-> Some(entry.action)]

\* on_item_activated, first block: a non-empty openaction list is performed
\* and the handler returns, unless perform_openaction raised
HasOpenactionList(obj) == obj.openaction # None /\ obj.openaction[1] # <<>>
PerformedAndStopped(obj) ==
    HasOpenactionList(obj) /\ ~PerformOpenaction(obj).raised

\* the first objectbrowser entry of the list, if there is one
BrowserEntries(obj) ==
    IF obj.openaction = None THEN {}
    ELSE {i \in 1..Len(obj.openaction[1]) :
            Lower(obj.openaction[1][i].action) = <<"objectbrowser">>}
NextHost(obj) ==
    IF BrowserEntries(obj) = {} THEN current_host
    ELSE LET entry == obj.openaction[1][MinOf(BrowserEntries(obj))]
         IN IF CandidateHost(entry) # None THEN CandidateHost(entry)[1]
            ELSE current_host
NextPort(obj) ==
    IF BrowserEntries(obj) = {} THEN current_port
    ELSE LET entry == obj.openaction[1][MinOf(BrowserEntries(obj))]
         IN IF entry.port # None THEN entry.port[1] ELSE current_port

\* variants used to test the navigation properties
RemoteIdAlwaysRoot(obj) == <<"/">>
ReturnsEarlyOnTitleOnly(obj) == obj.title = None
TargetIdOnly(target) == target.id

\* the early returns of on_item_activated after the first block
ReturnsEarly(obj) ==
    \/ obj.title = None
    \/ obj.openaction = None /\ obj.objects = 0

Switching(obj) == NextHost(obj) # current_host \/ NextPort(obj) # current_port
RemoteId(obj) == IF Switching(obj) THEN <<"/">> ELSE obj.id

\* the entry on_item_activated appends
PushedEntry(obj) ==
    NavEntry(obj.id, HumanTitle(obj.title[1], RemoteId(obj)), NextHost(obj),
             IntStr(NextPort(obj)), RemoteId(obj))

\* on_item_activated(obj)
OnItemActivated(obj) ==
    /\ Len(nav_stack) < MaxDepth
    /\ event' = UiEvent("activate", obj, 0)
    /\ raised' = FALSE
    /\ IF PerformedAndStopped(obj)
       THEN /\ executed' = PerformOpenaction(obj).executed
            /\ sent' = <<>>
            /\ failed' = {}
            /\ UNCHANGED <<nav_stack, current_host, current_port,
                           current_objects, breadcrumb, selected_item,
                           current_details_obj, icon_store, rendered, populated>>
       ELSE IF ReturnsEarly(obj)
       THEN /\ executed' = None
            /\ sent' = <<>>
            /\ failed' = {}
            /\ UNCHANGED <<nav_stack, current_host, current_port,
                           current_objects, breadcrumb, selected_item,
                           current_details_obj, icon_store, rendered, populated>>
       ELSE \E failing \in Failures :
            /\ failed' = failing
            /\ nav_stack' = Append(nav_stack, PushedEntry(obj))
            /\ breadcrumb' = BreadcrumbParts(nav_stack')
            /\ current_host' = NextHost(obj)
            /\ current_port' = NextPort(obj)
            /\ sent' = (IF Switching(obj)
                        THEN <<InfoRequest(NextHost(obj), NextPort(obj))>>
                        ELSE <<>>)
                       \o <<ObjectsRequest(RemoteId(obj), NextHost(obj), NextPort(obj))>>
            /\ icon_store' = (IF Switching(obj)
                              THEN IconsAfterInfo(NextHost(obj), NextPort(obj), failing)
                              ELSE icon_store)
            /\ LoadListing(ObjectsRequest(RemoteId(obj), NextHost(obj), NextPort(obj)),
                           failing)
            /\ executed' = None
    /\ UNCHANGED <<engineVars, searchVars, rootVars, linkVars, objectVars, callVars, modeVars>>

\* a click that goes back to the root endpoint whatever the entry says
TargetHostAlwaysRoot(target) == root_host

\* target.get("host") or self.root_host; int(target.get("port"))
TargetHost(target) == IF target.host # "" THEN target.host ELSE root_host
TargetPort(target) == ParseInt(target.port)
TargetRemoteId(target) ==
    IF target.remote_id # <<>> THEN target.remote_id ELSE target.id

\* on_breadcrumb_clicked(index), index a part of the breadcrumb bar
OnBreadcrumbClicked(index) ==
    /\ index \in 0..Len(nav_stack)
    /\ event' = UiEvent("click", NoObject, index)
    /\ executed' = None
    /\ raised' = FALSE
    /\ icon_store' = icon_store
    /\ \E failing \in Failures :
        /\ failed' = failing
        /\ IF index <= 0
           THEN /\ nav_stack' = <<>>
                /\ breadcrumb' = BreadcrumbParts(nav_stack')
                /\ current_host' = root_host
                /\ current_port' = root_port
                /\ sent' = <<RootRequest(root_host, root_port)>>
                /\ LoadListing(RootRequest(root_host, root_port), failing)
           ELSE LET target == nav_stack[index]
                IN /\ nav_stack' = SubSeq(nav_stack, 1, index)
                   /\ breadcrumb' = BreadcrumbParts(nav_stack')
                   /\ current_host' = TargetHost(target)
                   /\ current_port' = TargetPort(target)
                   /\ sent' = <<ObjectsRequest(TargetRemoteId(target),
                                               TargetHost(target), TargetPort(target))>>
                   /\ LoadListing(ObjectsRequest(TargetRemoteId(target),
                                                 TargetHost(target), TargetPort(target)),
                                  failing)
    /\ UNCHANGED <<engineVars, searchVars, rootVars, linkVars, objectVars, callVars, modeVars>>

\* on_item_pressed / on_item_clicked on a tile of the displayed listing: the
\* tile becomes the selection, its object the one of the details panel
Tiles == {ViewObject(PlainId, Some(<<"P">>), 0, None),
          ViewObject(GroupById, Some(<<"G">>), 2, None)}
OnItemPressed(obj) ==
    /\ populated = "reply"
    /\ selected_item # Some(obj.id)
    /\ selected_item' = Some(obj.id)
    /\ event' = UiEvent("press", obj, 0)
    /\ sent' = <<>>
    /\ executed' = None
    /\ raised' = FALSE
    /\ failed' = {}
    /\ UNCHANGED <<nav_stack, current_host, current_port, current_objects,
                   breadcrumb, current_details_obj, icon_store, rendered, populated>>
    /\ UNCHANGED <<engineVars, searchVars, rootVars, linkVars, objectVars, callVars, modeVars>>

OnItemClicked(obj) ==
    /\ populated = "reply"
    /\ current_details_obj' = Some(obj.id)
    /\ event' = UiEvent("select", obj, 0)
    /\ sent' = <<>>
    /\ executed' = None
    /\ raised' = FALSE
    /\ failed' = {}
    /\ UNCHANGED <<nav_stack, current_host, current_port, current_objects,
                   breadcrumb, selected_item, icon_store, rendered, populated>>
    /\ UNCHANGED <<engineVars, searchVars, rootVars, linkVars, objectVars, callVars, modeVars>>

\* _get_current_path: the remote_id of the last entry, "/" at the root
GetCurrentPath ==
    IF nav_stack = <<>> THEN <<"/">>
    ELSE LET tail == nav_stack[Len(nav_stack)]
         IN IF tail.remote_id # <<>> THEN tail.remote_id
            ELSE IF tail.id # <<>> THEN tail.id ELSE <<"/">>

\* _group_by_property(prop), prop chosen in the Group menu
GroupByProperty(prop) ==
    /\ Len(nav_stack) < MaxDepth
    /\ populated = "reply"
    /\ LET base_path == GetCurrentPath
           target_path == Rstrip(base_path) \o <<"/", "<", "GroupBy", ":", prop, ">">>
       IN /\ nav_stack' = Append(nav_stack,
                 NavEntry(base_path, <<"Group by ", prop>>, current_host,
                          IntStr(current_port), target_path))
          /\ breadcrumb' = BreadcrumbParts(nav_stack')
          /\ sent' = <<ObjectsRequest(target_path, current_host, current_port)>>
          /\ icon_store' = icon_store
          /\ \E failing \in Failures :
                /\ failed' = failing
                /\ LoadListing(ObjectsRequest(target_path, current_host, current_port),
                               failing)
    /\ event' = UiEvent("group", NoObject, 0)
    /\ executed' = None
    /\ raised' = FALSE
    /\ UNCHANGED <<current_host, current_port>>
    /\ UNCHANGED <<engineVars, searchVars, rootVars, linkVars, objectVars, callVars, modeVars>>

\* ------------------------------------ deep links (MainWindow.navigate_to_path)
\* the providers of the session: their GetInfo RootName and their listings
RootNameOf(host, port) ==
    IF host = PROVIDER_HOST /\ port = PROVIDER_PORT THEN <<"One">> ELSE <<"Two">>

SwitchToOther == Some(<<ObjectBrowser(Some(OtherHost), None, Some(OtherPort))>>)
LeafId == <<"/", "p", "/", "j">>
ObjP == ViewObject(PlainId, Some(<<"P">>), 2, None)
ObjS == ViewObject(<<"/", "s">>, Some(<<"S">>), 0, SwitchToOther)
ObjT == ViewObject(<<"/", "t">>, Some(<<"T">>), 0, Some(<<Terminal>>))
ObjJ == ViewObject(LeafId, Some(<<"J">>), 0, None)
ObjE == ViewObject(<<"/", "p", "/", "e">>, Some(<<"E">>), 2, SwitchToOther)
ObjAlice == ViewObject(ShowId, Some(<<"alice">>), 2, None)
ObjQ == ViewObject(<<"/", "q">>, Some(<<"Q">>), 2, None)
ObjK == ViewObject(<<"/", "q", "/", "k">>, Some(<<"K">>), 0, None)

\* a folder of the root provider whose listing is a search in progress: the
\* reply holds the handle the provider issued
SearchFolderId == <<"/", "search">>
ObjModules == ViewObject(SearchFolderId, Some(<<"Search">>), 1, None)
IssuedHandle == WPLmodSearchHandle(Uuid(1), <<"python">>, TRUE)

\* the tile fields of an object of a listing
TileOf(o) == ViewObject(o.id, Some(o.title), o.objects, None)

\* the objects a GetObjects reply of the endpoint lists for the id
Children(host, port, id) ==
    IF host = PROVIDER_HOST /\ port = PROVIDER_PORT
    THEN CASE id = <<"/">> -> <<ObjP, ObjS, ObjT>>
           [] id = PlainId -> <<ObjJ, ObjE>>
           [] id = GroupById -> <<ObjAlice>>
           [] id = ShowId -> <<ObjJ>>
           [] id = SearchFolderId -> <<TileOf(IssuedHandle)>>
           [] OTHER -> <<>>
    ELSE IF host = OtherHost /\ port = OtherPort
    THEN CASE id = <<"/">> -> <<ObjQ>>
           [] id = <<"/", "q">> -> <<ObjK>>
           [] OTHER -> <<>>
    ELSE <<>>

\* [s for s in path.split("/") if s != ""]
RECURSIVE SplitSlash(_)
SplitSlash(s) ==
    LET slashes == {i \in 1..Len(s) : s[i] = "/"}
    IN IF s = <<>> THEN <<>>
       ELSE IF slashes = {} THEN <<s>>
       ELSE LET i == MinOf(slashes)
            IN (IF i = 1 THEN <<>> ELSE <<SubSeq(s, 1, i - 1)>>)
               \o SplitSlash(SubSeq(s, i + 1, Len(s)))

\* _is_host_token / _parse_host_token / _is_command_token
Inner(seg) == SubSeq(seg, 2, Len(seg) - 1)
IsHostToken(seg) ==
    /\ Len(seg) > 2 /\ seg[1] = "[" /\ seg[Len(seg)] = "]"
    /\ Colons(Inner(seg)) # {}
IsNumber(s) == s # <<>> /\ \A i \in 1..Len(s) : \E d \in 0..9 : Digit(d) = s[i]
ParseHostToken(seg) ==
    LET hp == Split1(Inner(seg))
    IN [h |-> hp[1], p |-> IF IsNumber(hp[2]) THEN Some(ParseInt(hp[2])) ELSE None]
IsCommandToken(seg) == Len(seg) > 2 /\ seg[1] = "<" /\ seg[Len(seg)] = ">"
IsOpenActionToken(seg) ==
    Lower(seg) \in {<<"[", "openaction", "]">>, <<"<", "openaction", ">">>}

\* the locals and the window state navigate_to_path works on
WalkStart(failing) ==
    [nav |-> <<>>, rh |-> PROVIDER_HOST, rp |-> PROVIDER_PORT, rn |-> DefaultRootName,
     ch |-> PROVIDER_HOST, cp |-> PROVIDER_PORT, current_id |-> <<"/">>,
     last_obj |-> None, processed_any |-> FALSE, info_name |-> None,
     sent |-> <<>>, objs |-> RootRequest(PROVIDER_HOST, PROVIDER_PORT),
     populated |-> "reply", icons |-> Some(Endpoint(PROVIDER_HOST, PROVIDER_PORT)),
     rendered |-> Some(Endpoint(PROVIDER_HOST, PROVIDER_PORT)),
     executed |-> None, raised |-> FALSE, done |-> FALSE, failing |-> failing]

\* load_root / load_children inside the walk
WalkLoad(st, req) ==
    [st EXCEPT !.sent = Append(@, req), !.objs = req,
               !.populated = IF req.method \in st.failing THEN "empty" ELSE "reply",
               !.rendered = IF req.method \in st.failing THEN None ELSE st.icons]

\* perform_openaction(last_obj) under try / except: pass
WalkOpenAction(st) ==
    IF st.last_obj = None \/ ~HasOpenactionList(st.last_obj[1])
    THEN [st EXCEPT !.done = TRUE]
    ELSE [st EXCEPT !.done = TRUE,
                    !.executed = PerformOpenaction(st.last_obj[1]).executed]

\* a [host:port] segment
WalkHost(st, seg) ==
    LET tok == ParseHostToken(seg)
        new_host == IF tok.h # <<>> THEN tok.h[1] ELSE st.rh
        new_port == IF tok.p # None THEN tok.p[1] ELSE st.rp
        info_ok == "GetInfo" \notin st.failing
        \* the local root_name: assigned only when fetch_info returned
        name == IF info_ok THEN Some(RootNameOf(new_host, new_port)) ELSE st.info_name
        asked == [st EXCEPT !.sent = Append(@, InfoRequest(new_host, new_port)),
                            !.info_name = name,
                            !.icons = IF info_ok THEN Some(Endpoint(new_host, new_port))
                                      ELSE @]
        placed == IF ~st.processed_any /\ st.nav = <<>>
                  THEN [asked EXCEPT !.rn = name[1], !.rh = new_host, !.rp = new_port,
                                     !.nav = <<>>]
                  ELSE [asked EXCEPT !.nav = Append(@,
                            NavEntry(<<"/">>, name[1], new_host, IntStr(new_port), <<"/">>))]
    IN IF new_host = st.ch /\ new_port = st.cp
       THEN [st EXCEPT !.current_id = <<"/">>]
       ELSE IF name = None
       THEN \* root_name is read unbound: UnboundLocalError leaves the method
            [asked EXCEPT !.raised = TRUE, !.done = TRUE]
       ELSE [WalkLoad([placed EXCEPT !.ch = new_host, !.cp = new_port],
                      RootRequest(new_host, new_port))
                EXCEPT !.current_id = <<"/">>]

\* a command token other than <OpenAction>
WalkCommand(st, seg) ==
    LET target_remote == Rstrip(st.current_id) \o <<"/">> \o seg
        parts == Split2(Inner(seg))
        title == IF StartsCommand(seg, "GroupBy")
                 THEN <<"Group by ">> \o SubSeq(seg, 4, Len(seg) - 1)
                 ELSE IF StartsCommand(seg, "Show") /\ Len(parts) = 3
                 THEN <<"Show ">> \o parts[2] \o <<" = ">> \o parts[3]
                 ELSE seg
        pushed == [st EXCEPT !.nav = Append(@, NavEntry(st.current_id, title, st.ch,
                                                        IntStr(st.cp), target_remote)),
                             !.processed_any = TRUE,
                             !.current_id = target_remote]
    IN WalkLoad(pushed, ObjectsRequest(target_remote, st.ch, st.cp))

\* oid.rstrip("/").endswith("/" + seg) or title == seg
EndsWithSeq(s, t) == Len(s) >= Len(t) /\ SubSeq(s, Len(s) - Len(t) + 1, Len(s)) = t
Matches(o, seg) ==
    \/ EndsWithSeq(Rstrip(o.id), <<"/">> \o seg)
    \/ o.title # None /\ o.title[1] = seg

\* a normal path segment; next_seg is the segment after it, if any
WalkSegment(st, seg, next_seg) ==
    LET asked == [st EXCEPT !.sent =
                      Append(@, ObjectsRequest(st.current_id, st.ch, st.cp))]
        children == Children(st.ch, st.cp, st.current_id)
        hits == {i \in 1..Len(children) : Matches(children[i], seg)}
        match == children[MinOf(hits)]
        pushed == [asked EXCEPT !.last_obj = Some(match),
                                !.nav = Append(@,
                                    NavEntry(match.id, HumanTitle(match.title[1], match.id),
                                             st.ch, IntStr(st.cp), match.id)),
                                !.processed_any = TRUE]
    IN IF "GetObjects" \in st.failing
       THEN \* fetch_objects_for_id is called outside any try
            [asked EXCEPT !.raised = TRUE, !.done = TRUE]
       ELSE IF hits = {} THEN [asked EXCEPT !.done = TRUE]
       ELSE IF match.title = None
       THEN [asked EXCEPT !.last_obj = Some(match), !.done = TRUE]
       ELSE IF match.objects = 0 /\ ~(next_seg # None /\ IsCommandToken(next_seg[1]))
       THEN [pushed EXCEPT !.done = TRUE]
       ELSE WalkLoad([pushed EXCEPT !.current_id = match.id],
                     ObjectsRequest(match.id, st.ch, st.cp))

WalkStep(st, segs, idx) ==
    LET seg == segs[idx]
    IN IF Lower(seg) = <<"[", "openaction", "]">> THEN WalkOpenAction(st)
       ELSE IF IsHostToken(seg) THEN WalkHost(st, seg)
       ELSE IF IsCommandToken(seg)
       THEN IF Lower(seg) = <<"<", "openaction", ">">> THEN WalkOpenAction(st)
            ELSE WalkCommand(st, seg)
       ELSE WalkSegment(st, seg, IF idx < Len(segs) THEN Some(segs[idx + 1]) ELSE None)

RECURSIVE Walk(_, _, _)
Walk(st, segs, idx) ==
    IF idx > Len(segs) \/ st.done THEN st
    ELSE Walk(WalkStep(st, segs, idx), segs, idx + 1)

\* path.strip(), a leading "/" added when missing, split into segments
WalkPath(full_path, failing) ==
    Walk(WalkStart(failing), SplitSlash(full_path), 1)

\* the window after navigate_to_path ran on it
Landed(st) ==
    /\ nav_stack' = st.nav
    /\ breadcrumb' = <<st.rn>> \o [i \in 1..Len(st.nav) |-> st.nav[i].title]
    /\ current_host' = st.ch
    /\ current_port' = st.cp
    /\ current_objects' = st.objs
    /\ sent' = st.sent
    /\ executed' = st.executed
    /\ root_host' = st.rh
    /\ root_port' = st.rp
    /\ root_name' = st.rn
    /\ selected_item' = None
    /\ current_details_obj' = None
    /\ icon_store' = st.icons
    /\ rendered' = st.rendered
    /\ populated' = st.populated
    /\ raised' = st.raised
    /\ failed' = st.failing

\* main(): navigate_to_path(args.path) on the window just constructed
NavigateToPath(full_path) ==
    /\ event.kind = "start"
    /\ event' = UiEvent("link", NoObject, 0)
    /\ deeplink' = Some(full_path)
    /\ \E failing \in Failures : Landed(WalkPath(full_path, failing))
    /\ UNCHANGED <<engineVars, searchVars, objectVars, callVars, modeVars>>

\* ------------------------------- typed objects (providers' models, browser)
\* d.get(k, default) on a dict whose keys are plain names
Get(d, k, default) == IF k \in DOMAIN d THEN d[k] ELSE default

\* d.update(e)
DictUpdate(d, e) ==
    [k \in (DOMAIN d) \cup (DOMAIN e) |-> IF k \in DOMAIN e THEN e[k] ELSE d[k]]

CoreKeys == {"class", "id", "title", "icon", "objects"}

\* whether int(v) returns rather than raises
IntOk(v) ==
    \/ v.t \in {"int", "bool"}
    \/ /\ v.t = "str"
       /\ v.s # <<>>
       /\ \A i \in 1..Len(v.s) : \E dg \in 0..9 : Digit(dg) = v.s[i]

\* int(v), where it returns
IntOf(v) == IF v.t = "str" THEN ParseInt(v.s) ELSE v.n

\* the classes the providers' model modules define, by module
ModelClasses ==
    [base |-> {"ProviderObject", "WPGroup"},
     Slurm |-> {"WPSlurmPartition", "WPSlurmJob"},
     Modules |-> {"WPLmodDependency", "WPLmodSoftware"},
     HomeDirectory |-> {"WPDirectory", "WPFile"},
     ResearchComputingAtIU |-> {"WPObject"}]

\* the names the browser imports, by module
ImportNames ==
    [base |-> {"ProviderObject", "WPGroup"},
     Slurm |-> {"WPSlurmPartition", "WPSlurmJob", "WPSlurmJobGroup"},
     Modules |-> {"WPLmodDependency", "WPLmodSoftware"},
     HomeDirectory |-> {"WPDirectory", "WPFile"},
     ResearchComputingAtIU |-> {"WPObject"}]

AllImported == UNION {ImportNames[m] : m \in DOMAIN ImportNames}

\* every import succeeded
RegistryAllImported == AllImported

\* the classes that are not None after the browser's import block: one
\* try/except covers every import, and a name a module does not define sets
\* all of them to None
Registry ==
    IF \A m \in DOMAIN ImportNames : ImportNames[m] \subseteq ModelClasses[m]
    THEN AllImported
    ELSE {}

\* the dataclass fields a class adds to id, title, icon, objects, with their
\* defaults
Defaults(cls) ==
    CASE cls = "WPSlurmPartition" ->
             [isdefault |-> BoolV(FALSE), maxtime |-> NoneValue,
              totalnodes |-> NoneValue, runningjobs |-> NoneValue,
              pendingjobs |-> NoneValue, hasgpus |-> BoolV(FALSE),
              contextmenu |-> NoneValue]
      [] cls = "WPSlurmJob" ->
             [jobarray |-> BoolV(FALSE), userid |-> NoneValue,
              nodecount |-> IntV(0), jobstate |-> NoneValue,
              partition |-> NoneValue, jobname |-> NoneValue, cpus |-> IntV(0),
              totalmemory |-> NoneValue, requestedruntime |-> NoneValue,
              account |-> NoneValue, elapsedruntime |-> NoneValue,
              state_reason |-> NoneValue, priority |-> NoneValue,
              remainingruntime |-> NoneValue, gres |-> NoneValue,
              contextmenu |-> NoneValue]
      [] cls \in {"WPDirectory", "WPFile"} ->
             [owner |-> NoneValue, group |-> NoneValue]
      [] cls = "WPLmodSoftware" ->
             [loaded |-> BoolV(FALSE), details |-> StrV(<<>>)]
      [] cls = "WPNocoTable" ->
             [base_id |-> NoneValue, table_type |-> NoneValue,
              column_count |-> NoneValue, record_count |-> NoneValue,
              contextmenu |-> NoneValue]
      [] OTHER -> EmptyDict

\* cls(id=..., title=..., icon=..., objects=..., **given): f holds the
\* fields, extra the WPObject's passthrough dict
NewObject(cls, id, title, icon, objects, given, extra) ==
    [cls |-> cls,
     f |-> DictUpdate(DictUpdate(Defaults(cls), given),
                      [id |-> id, title |-> title, icon |-> icon,
                       objects |-> objects]),
     extra |-> extra]

\* a dict kept where an object is expected
AsDict(d) == [cls |-> "dict", f |-> d, extra |-> EmptyDict]

NoTyped == AsDict(EmptyDict)

\* the fields _extra_fields emits whatever their value
AlwaysEmitted(cls) ==
    CASE cls = "WPSlurmPartition" -> {"isdefault", "hasgpus"}
      [] cls = "WPSlurmJob" -> {"jobarray", "nodecount", "cpus"}
      [] cls = "WPLmodSoftware" -> {"loaded", "details"}
      [] OTHER -> {}

\* the value _extra_fields emits for field k
EmittedValue(o, k) ==
    CASE o.cls = "WPSlurmJob" /\ k = "jobarray" -> BoolV(Truthy(o.f[k]))
      [] o.cls = "WPSlurmJob" /\ k \in {"nodecount", "cpus", "priority"} ->
             IntV(IntOf(o.f[k]))
      [] o.cls = "WPLmodSoftware" /\ k = "loaded" -> BoolV(Truthy(o.f[k]))
      [] o.cls = "WPLmodSoftware" /\ k = "details" -> StrV(Str(o.f[k]))
      [] OTHER -> o.f[k]

\* o._extra_fields()
ExtraFields(o) ==
    IF o.cls = "WPObject" THEN o.extra
    ELSE LET ks == {k \in DOMAIN Defaults(o.cls) :
                        k \in AlwaysEmitted(o.cls) \/ o.f[k] # NoneValue}
         IN [k \in ks |-> EmittedValue(o, k)]

\* ProviderObject.to_dict
ToDict(o) ==
    DictUpdate([class |-> StrV(<<o.cls>>), id |-> o.f.id, title |-> o.f.title,
                icon |-> o.f.icon, objects |-> IntV(IntOf(o.f.objects))],
               ExtraFields(o))

\* v if isinstance(v, str) else None
StrOrNone(v) == IF v.t = "str" THEN v ELSE NoneValue

\* int(v) if v is not None else None
IntOrNone(v) == IF v = NoneValue THEN NoneValue ELSE IntV(IntOf(v))

\* WPSlurmPartition.from_dict / WPNocoTable.from_dict
FromDict(cls, payload) ==
    LET get(k) == Get(payload, k, NoneValue)
        given ==
            IF cls = "WPSlurmPartition"
            THEN [isdefault |-> BoolV(Truthy(Get(payload, "isdefault", BoolV(FALSE)))),
                  maxtime |-> StrOrNone(get("maxtime")),
                  totalnodes |-> StrOrNone(get("totalnodes")),
                  runningjobs |-> StrOrNone(get("runningjobs")),
                  pendingjobs |-> StrOrNone(get("pendingjobs")),
                  hasgpus |-> BoolV(Truthy(Get(payload, "hasgpus", BoolV(FALSE)))),
                  contextmenu |-> get("contextmenu")]
            ELSE [base_id |-> StrOrNone(get("base_id")),
                  table_type |-> StrOrNone(get("table_type")),
                  column_count |-> IntOrNone(get("column_count")),
                  record_count |-> IntOrNone(get("record_count")),
                  contextmenu |-> get("contextmenu")]
    IN NewObject(cls,
                 StrV(Str(Get(payload, "id", StrV(<<"/">>)))),
                 StrV(Str(Get(payload, "title", StrV(<<>>)))),
                 StrOrNone(get("icon")),
                 IntV(IntOf(Get(payload, "objects", IntV(0)))),
                 given, EmptyDict)

\* the classes _to_typed_objects has a branch for
BranchClasses ==
    {"WPSlurmPartition", "WPSlurmJob", "WPSlurmJobGroup", "WPDirectory", "WPFile",
     "WPLmodDependency", "WPLmodSoftware", "WPGroup", "WPObject"}

\* the class a branch of _to_typed_objects instantiates, if one applies
BranchOf(obj) ==
    LET cls_name == Get(obj, "class", NoneValue)
    IN IF /\ cls_name.t = "str"
          /\ Len(cls_name.s) = 1
          /\ cls_name.s[1] \in BranchClasses \cap Registry
       THEN Some(cls_name.s[1])
       ELSE None

\* the keyword arguments the branch passes besides the four core ones
BranchGiven(cls, obj) ==
    CASE cls = "WPSlurmJob" ->
             [jobarray |-> BoolV(Truthy(Get(obj, "jobarray", BoolV(FALSE)))),
              userid |-> Get(obj, "userid", NoneValue),
              nodecount |-> IntV(IntOf(Get(obj, "nodecount", IntV(0)))),
              jobstate |-> Get(obj, "jobstate", NoneValue)]
      [] cls \in {"WPDirectory", "WPFile"} ->
             [owner |-> Get(obj, "owner", NoneValue),
              group |-> Get(obj, "group", NoneValue)]
      [] OTHER -> EmptyDict

\* whether the branch's constructor call raises: an int() that fails
BranchRaises(cls, obj) ==
    \/ ~IntOk(Get(obj, "objects", IntV(0)))
    \/ cls = "WPSlurmJob" /\ ~IntOk(Get(obj, "nodecount", IntV(0)))

\* one element of _to_typed_objects(raw_objects)
ToTyped(obj) ==
    LET branch == BranchOf(obj)
        cls == branch[1]
    IN IF branch = None \/ BranchRaises(cls, obj)
       THEN AsDict(obj)
       ELSE NewObject(cls,
                      StrV(Str(Get(obj, "id", StrV(<<>>)))),
                      StrV(Str(Get(obj, "title", StrV(<<>>)))),
                      Get(obj, "icon", NoneValue),
                      IntV(IntOf(Get(obj, "objects", IntV(0)))),
                      BranchGiven(cls, obj),
                      IF cls = "WPObject"
                      THEN [k \in (DOMAIN obj) \ CoreKeys |-> obj[k]]
                      ELSE EmptyDict)

\* _obj_to_dict
ObjToDict(obj) == IF obj.cls = "dict" THEN obj.f ELSE ToDict(obj)

\* no call of a pure function is being followed
NoCall == args = <<>> /\ result = None

\* no object is being converted
ObjectsIdle ==
    /\ received = EmptyDict
    /\ typed = NoTyped
    /\ shown = EmptyDict
    /\ stage = "idle"

\* ------------------------------------------------ the pipeline client (Spec)
Init ==
    /\ listing \in {[i \in 1..Len(us) |-> Leaf(i, us[i])] : us \in Listings}
    /\ allowed \in {None, Some({Cpus})}
    /\ pc = "idle"
    /\ request = <<>>
    /\ reply = ObjectsPayload(<<>>)
    /\ reqBase = <<"/">>
    /\ reqTokens = <<>>
    /\ group = NoGroup
    /\ conn = [c \in Conns |-> NewConn]
    /\ SearchInit
    /\ NavInit
    /\ ObjectsIdle
    /\ NoCall

\* what the client asks for: any pipeline under /part, one token under /
Requests ==
    {<<PartBase, p>> : p \in Pipelines} \cup {<<<<"/">>, <<t>>>> : t \in ClientTokens}

\* the client sends GetObjects for base + tokens and reads the reply line
GetObjects ==
    /\ pc = "idle"
    /\ \E r \in Requests :
        /\ reqBase' = r[1]
        /\ reqTokens' = r[2]
        /\ request' = JoinPath(r[1], r[2])
        /\ reply' = HandleMessage(GetObjectsMessage(JoinPath(r[1], r[2])), FALSE)
    /\ pc' = "replied"
    /\ UNCHANGED <<listing, allowed, group, conn, searchVars, uiVars>>

\* the client enters the i-th object of the reply when it is a group:
\* it sends GetObjects for that object's id
Drill(i) ==
    /\ pc = "replied"
    /\ reply.kind = "objects"
    /\ i \in 1..Len(reply.objects)
    /\ reply.objects[i].class = StrV(<<"WPGroup">>)
    /\ group' = reply.objects[i]
    /\ request' = reply.objects[i].id.s
    /\ reply' = HandleMessage(GetObjectsMessage(reply.objects[i].id.s), FALSE)
    /\ pc' = "drilled"
    /\ UNCHANGED <<listing, allowed, reqBase, reqTokens, conn, searchVars, uiVars>>

Next ==
    \/ GetObjects
    \/ \E i \in 1..(MaxLeaves + 1) : Drill(i)

Spec == Init /\ [][Next]_vars

\* --------------------------------------- the connection handlers (SpecServe)
\* JsonLineHandler.handle, first half: readline and json.loads
ReadLine(c, lines) ==
    /\ conn[c].pc = "accepted"
    /\ \E m \in lines :
        conn' = [conn EXCEPT ![c] =
            IF m.json = "eof" THEN [@ EXCEPT !.pc = "done", !.incoming = m]
            ELSE IF m.json = "invalid"
            THEN [@ EXCEPT !.pc = "done", !.incoming = m,
                           !.out = <<ErrorPayload("Invalid JSON")>>]
            ELSE [@ EXCEPT !.pc = "parsed", !.incoming = m]]
    /\ UNCHANGED <<listing, allowed, pc, request, reply, reqBase, reqTokens, group, searchVars, uiVars>>

\* second half: provider.handle_message(incoming) and _send_json(payload);
\* an exception that handle_message lets through ends the handler unanswered
Dispatch(c) ==
    /\ conn[c].pc = "parsed"
    /\ \E fails \in BOOLEAN :
        LET payload == HandleMessage(conn[c].incoming, fails)
        IN conn' = [conn EXCEPT ![c] =
              IF payload.kind = "raise"
              THEN [@ EXCEPT !.pc = "crashed", !.failed = TRUE, !.listed = TRUE]
              ELSE [@ EXCEPT !.pc = "done",
                             !.failed = fails /\ Listed(conn[c].incoming),
                             !.listed = Listed(conn[c].incoming),
                             !.out = <<payload>>]]
    /\ UNCHANGED <<listing, allowed, pc, request, reply, reqBase, reqTokens, group, searchVars, uiVars>>

InvalidLine == [json |-> "invalid", text |-> <<>>, fields |-> NoFields]
NoLine == [json |-> "eof", text |-> <<>>, fields |-> NoFields]

Method(name) == DictMessage([NoFields EXCEPT !["method"] = StrV(<<name>>)])

\* the lines the clients of SpecServe send
ServeLines ==
    { NoLine, InvalidLine, OtherMessage, StrMessage(<<"GetInfo">>),
      Method("GetRootObjects"), Method("GetInfo"), Method("GetObjects"),
      Method("Search"),
      GetObjectsMessage(PartBase),
      GetObjectsMessage(JoinPath(PartBase, <<Token(<<"GroupBy">>, Some(Userid), None)>>)) }

InitServe ==
    /\ listing \in {<<Leaf(1, StrV(<<"1">>))>>, <<Leaf(1, ListV)>>}
    /\ allowed = None
    /\ pc = "idle"
    /\ request = <<>>
    /\ reply = ObjectsPayload(<<>>)
    /\ reqBase = <<"/">>
    /\ reqTokens = <<>>
    /\ group = NoGroup
    /\ conn = [c \in Conns |-> NewConn]
    /\ SearchInit
    /\ NavInit
    /\ ObjectsIdle
    /\ NoCall

NextServe ==
    \/ \E c \in Conns : ReadLine(c, ServeLines)
    \/ \E c \in Conns : Dispatch(c)

SpecServe == InitServe /\ [][NextServe]_vars

\* ------------------------------------- request discrimination (SpecDispatch)
MethodNames == {"GetRootObjects", "GetInfo", "GetObjects", "Search", "Bogus"}

Discriminators ==
    {NoFields} \cup
    {[NoFields EXCEPT ![k] = StrV(<<name>>)] : k \in CandidateKeys, name \in MethodNames}

IdValues == {StrV(PartBase), StrV(<<>>), IntV(7)}

\* the JSON objects a client may send: at most one discriminator, the legacy
\* keys GetRootObjects / GetInfo, at most one of the id keys
DispatchDicts ==
    {[[[d EXCEPT !["GetRootObjects"] = lr] EXCEPT !["GetInfo"] = li] EXCEPT ![ik[1]] = ik[2]] :
        d \in Discriminators,
        lr \in {Absent, NoneValue, BoolV(TRUE), BoolV(FALSE)},
        li \in {Absent, BoolV(TRUE)},
        ik \in {<<"id", Absent>>} \cup
               {<<IdKeys[i], v>> : i \in 1..Len(IdKeys), v \in IdValues}}

DispatchLines ==
    {InvalidLine, OtherMessage}
        \cup {StrMessage(<<name>>) : name \in MethodNames}
        \cup {DictMessage(f) : f \in DispatchDicts}

NextDispatch ==
    \/ ReadLine("c1", DispatchLines)
    \/ Dispatch("c1")

SpecDispatch == InitServe /\ [][NextDispatch]_vars

\* ----------------------------------------- the search protocol (SpecSearch)
\* the engine's variables at rest while the search calls run
EngineIdle ==
    /\ listing = <<>>
    /\ allowed = None
    /\ pc = "idle"
    /\ request = <<>>
    /\ reply = ObjectsPayload(<<>>)
    /\ reqBase = <<"/">>
    /\ reqTokens = <<>>
    /\ group = NoGroup
    /\ conn = [c \in Conns |-> NewConn]

InitSearch == EngineIdle /\ SearchInit /\ NavInit /\ ObjectsIdle /\ NoCall

SearchStep(c) ==
    \/ CheckDone(c)
    \/ CheckStart(c)
    \/ SetRunning(c)
    \/ StartThread(c)
    \/ SearchReturn(c)

WorkerStep(i) ==
    \/ SpiderRun(i)
    \/ SpiderStore(i)
    \/ SpiderMark(i)

NextSearch ==
    \/ InitialCall("a")
    \/ \E c \in Callers : PollCall(c)
    \/ \E c \in Callers : SearchStep(c)
    \/ \E i \in 1..MaxWorkers : WorkerStep(i)

SpecSearch == InitSearch /\ [][NextSearch]_vars

\* the same with the scheduling of threads: a thread that can take a step
\* eventually takes one, and client "a" keeps polling with its handle
SpecSearchFair ==
    /\ InitSearch /\ [][NextSearch]_vars
    /\ \A c \in Callers : WF_vars(SearchStep(c))
    /\ \A i \in 1..MaxWorkers : WF_vars(WorkerStep(i))
    /\ SF_vars(PollCall("a"))

\* -------------------------------------------- the browser's user (SpecNav)
InitNav == EngineIdle /\ SearchInit /\ NavInit /\ ObjectsIdle /\ NoCall

NextNav ==
    \/ \E obj \in ViewObjects : OnItemActivated(obj)
    \/ \E index \in 0..MaxDepth : OnBreadcrumbClicked(index)

SpecNav == InitNav /\ [][NextNav]_vars

\* ------------------------------- the user with selection and grouping (SpecView)
NextView ==
    \/ \E obj \in ViewObjects : OnItemActivated(obj)
    \/ \E index \in 0..MaxDepth : OnBreadcrumbClicked(index)
    \/ \E obj \in Tiles : OnItemPressed(obj)
    \/ \E obj \in Tiles : OnItemClicked(obj)
    \/ GroupByProperty("userid")

SpecView == InitNav /\ [][NextView]_vars

\* ----------------------------------- a browser started with --path (SpecLink)
HostOther == <<"[", OtherHost, ":", "9", "0", "0", "0", "]">>
HostRoot == <<"[", PROVIDER_HOST, ":", "8", "8", "8", "8", "]">>
OpenActionBracket == <<"[", "openaction", "]">>
OpenActionAngle == <<"<", "OpenAction", ">">>
GroupByToken == <<"<", "GroupBy", ":", "userid", ">">>

\* "/" + "/".join(parts) + "/"
RECURSIVE JoinSlash(_)
JoinSlash(parts) ==
    IF parts = <<>> THEN <<>> ELSE Head(parts) \o <<"/">> \o JoinSlash(Tail(parts))
LinkOf(parts) == <<"/">> \o JoinSlash(parts)

\* the pairs of links that differ in the spelling of the open action only
OpenActionTargets == {<<<<"S">>>>, <<<<"T">>>>, <<<<"P">>, <<"E">>>>}
Links ==
    { LinkOf(<<HostOther, <<"Q">>>>),
      LinkOf(<<HostOther, HostRoot>>),
      LinkOf(<<HostOther, <<"Q">>, HostRoot, <<"P">>>>),
      LinkOf(<<HostRoot, <<"P">>, GroupByToken>>),
      LinkOf(<<<<"P">>, <<"J">>>>),
      LinkOf(<<<<"P">>, HostOther, <<"Q">>, <<"K">>>>) }
    \cup { LinkOf(t \o <<a>>) :
             t \in OpenActionTargets, a \in {OpenActionBracket, OpenActionAngle} }

NextLink ==
    \/ \E full_path \in Links : NavigateToPath(full_path)
    \/ \E index \in 0..MaxDepth : OnBreadcrumbClicked(index)
    \/ GroupByProperty("userid")

SpecLink == InitNav /\ [][NextLink]_vars

\* ------------------------- links built by the toolbar (SpecRoundTrip)
\* f"[{entry_host}:{entry_port}]"
HostSegment(host, port) == <<"[", host, ":">> \o IntStr(port) \o <<"]">>

\* the segment an entry contributes: the command token of its remote_id, or
\* its title, or the last segment of its remote_id; nothing for a provider root
EntrySegment(entry) ==
    LET remote_id == IF entry.remote_id # <<>> THEN entry.remote_id
                     ELSE IF entry.id # <<>> THEN entry.id ELSE <<"/">>
        pieces == SplitSlash(remote_id)
        seg == IF Contains(remote_id, <<"/", "<">>)
               THEN (IF remote_id[Len(remote_id)] = "/" THEN <<>> ELSE pieces[Len(pieces)])
               ELSE IF entry.title # <<>> THEN entry.title
               ELSE LastSegment(remote_id)
    IN IF remote_id = <<"/">> \/ seg = <<>> \/ seg = <<"/">> THEN <<>> ELSE <<seg>>

\* the parts of the entries from position i on; prev is the endpoint of the
\* entry before, None at the start
RECURSIVE LinkParts(_, _, _)
LinkParts(stack, i, prev) ==
    IF i > Len(stack) THEN <<>>
    ELSE LET here == Endpoint(stack[i].host, ParseInt(stack[i].port))
         IN (IF prev # Some(here) THEN <<HostSegment(here.host, here.port)>> ELSE <<>>)
            \o EntrySegment(stack[i])
            \o LinkParts(stack, i + 1, Some(here))

\* ObjectToolbar._build_current_deeplink_from_state
BuildCurrentDeeplink ==
    IF nav_stack = <<>> THEN LinkOf(<<HostSegment(current_host, current_port)>>)
    ELSE LinkOf(LinkParts(nav_stack, 1, None))

\* the objects of the displayed listing
DisplayedObjects ==
    IF populated = "empty" THEN <<>>
    ELSE Children(current_objects.host, current_objects.port,
                  IF current_objects.method = "GetRootObjects" THEN <<"/">>
                  ELSE current_objects.id)

\* the user activates a tile of the displayed listing
ActivateDisplayed ==
    \E i \in 1..Len(DisplayedObjects) : OnItemActivated(DisplayedObjects[i])

\* the shortcut the toolbar wrote is opened: a new browser walks the link
\* built from this window's state, the providers answering as before
OpenShortcut ==
    /\ event.kind \notin {"start", "shortcut"}
    /\ event' = UiEvent("shortcut", NoObject, 0)
    /\ deeplink' = Some(BuildCurrentDeeplink)
    /\ Landed(WalkPath(BuildCurrentDeeplink, {}))
    /\ UNCHANGED <<engineVars, searchVars, objectVars, callVars, modeVars>>

NextRoundTrip ==
    \/ ActivateDisplayed
    \/ \E index \in 0..MaxDepth : OnBreadcrumbClicked(index)
    \/ GroupByProperty("userid")
    \/ OpenShortcut

SpecRoundTrip == InitNav /\ [][NextRoundTrip]_vars

\* ------------------------- objects received by the browser (SpecReconstruct)
AnIcon == StrV(BoxIcon)

\* the extras a listing carries for an object of the class
ExtrasOf(cls) ==
    CASE cls = "WPSlurmPartition" ->
             {EmptyDict, [maxtime |-> StrV(<<"1-00">>)],
              [isdefault |-> BoolV(TRUE), runningjobs |-> IntV(1)]}
      [] cls = "WPSlurmJob" ->
             {EmptyDict, [userid |-> StrV(<<"alice">>), nodecount |-> IntV(1)],
              [cpus |-> IntV(4), partition |-> StrV(<<"gpu">>)]}
      [] cls \in {"WPDirectory", "WPFile"} ->
             {EmptyDict, [owner |-> StrV(<<"alice">>), group |-> StrV(<<"users">>)]}
      [] cls = "WPLmodSoftware" ->
             {EmptyDict, [loaded |-> BoolV(TRUE), details |-> StrV(<<"gcc">>)]}
      [] OTHER -> {EmptyDict, [bar |-> IntV(42)]}

\* the object dicts a listing reply delivers: of every class the browser has
\* a branch for, of an unknown class, and without a class
ReceivedDicts ==
    LET classed ==
            {DictUpdate([class |-> StrV(<<cls>>), id |-> StrV(<<"/", "a">>),
                         title |-> StrV(<<"A">>), icon |-> icon,
                         objects |-> objects], extras) :
                 <<cls, icon, objects, extras>> \in
                     {q \in (BranchClasses \cup {"WPFoo"})
                            \X {NoneValue, AnIcon}
                            \X {IntV(0), IntV(1), StrV(<<"x">>)}
                            \X UNION {ExtrasOf(c) : c \in BranchClasses \cup {"WPFoo"}} :
                          q[4] \in ExtrasOf(q[1])}}
    IN classed \cup {[id |-> StrV(<<"/", "a">>), bar |-> IntV(42)]}

InitReconstruct ==
    /\ EngineIdle /\ SearchInit /\ NavInit /\ NoCall
    /\ received \in ReceivedDicts
    /\ typed = NoTyped
    /\ shown = EmptyDict
    /\ stage = "received"

\* fetch_objects / fetch_objects_for_id hand the reply to _to_typed_objects
ToTypedObjects ==
    /\ stage = "received"
    /\ typed' = ToTyped(received)
    /\ stage' = "typed"
    /\ UNCHANGED <<received, shown>>
    /\ UNCHANGED <<engineVars, searchVars, navVars, rootVars, viewVars, linkVars, callVars, modeVars>>

\* populate_objects and the handlers read the object through _obj_to_dict
ReadObject ==
    /\ stage = "typed"
    /\ shown' = ObjToDict(typed)
    /\ stage' = "shown"
    /\ UNCHANGED <<received, typed>>
    /\ UNCHANGED <<engineVars, searchVars, navVars, rootVars, viewVars, linkVars, callVars, modeVars>>

NextReconstruct ==
    \/ ToTypedObjects
    \/ ReadObject

SpecReconstruct == InitReconstruct /\ [][NextReconstruct]_vars

\* ---------------------------- objects built by the providers (SpecSerialize)
MaxJobs == 1   \* jobs counted per partition and state, rows and columns per table

PartitionIcon == <<".", "/", "resources", "/", "Partition.png">>
TableIcon == <<".", "/", "resources", "/", "Table.png">>

\* the WPSlurmPartition objects SlurmProvider.get_root_objects_payload builds
SlurmPartitions ==
    {NewObject("WPSlurmPartition", StrV(<<"/", "gpu">>), StrV(<<"gpu">>),
               StrV(PartitionIcon), IntV(job_count),
               [isdefault |-> BoolV(isdefault), maxtime |-> max_time,
                totalnodes |-> total_nodes, runningjobs |-> IntV(running_jobs),
                pendingjobs |-> IntV(pending_jobs), hasgpus |-> BoolV(has_gpus)],
               EmptyDict) :
         <<job_count, isdefault, max_time, total_nodes, running_jobs, pending_jobs,
           has_gpus>> \in
             (0..MaxJobs) \X BOOLEAN \X {NoneValue, StrV(<<"1-00">>)}
                 \X {NoneValue, StrV(<<"4">>)} \X (0..MaxJobs) \X (0..MaxJobs)
                 \X BOOLEAN}

\* the WPNocoTable objects NocoDBProvider.get_root_objects_payload builds
NocoTables ==
    {NewObject("WPNocoTable", StrV(<<"/", "t1">>), StrV(<<"Images">>),
               StrV(TableIcon), IntV(record_count),
               [base_id |-> StrV(<<"b1">>), table_type |-> StrV(<<"table">>),
                column_count |-> IntV(column_count),
                record_count |-> IntV(record_count)],
               EmptyDict) :
         <<column_count, record_count>> \in (0..MaxJobs) \X (0..MaxJobs)}

InitSerialize ==
    /\ EngineIdle /\ SearchInit /\ NavInit /\ NoCall
    /\ typed \in SlurmPartitions \cup NocoTables
    /\ received = EmptyDict
    /\ shown = EmptyDict
    /\ stage = "built"

\* objects.append(obj.to_dict())
Serialize ==
    /\ stage = "built"
    /\ received' = ToDict(typed)
    /\ stage' = "sent"
    /\ UNCHANGED <<typed, shown>>
    /\ UNCHANGED <<engineVars, searchVars, navVars, rootVars, viewVars, linkVars, callVars, modeVars>>

\* cls.from_dict(d) of the class d names
Deserialize ==
    /\ stage = "sent"
    /\ typed' = FromDict(received["class"].s[1], received)
    /\ stage' = "rebuilt"
    /\ UNCHANGED <<received, shown>>
    /\ UNCHANGED <<engineVars, searchVars, navVars, rootVars, viewVars, linkVars, callVars, modeVars>>

\* .to_dict() of the rebuilt object
Reserialize ==
    /\ stage = "rebuilt"
    /\ shown' = ToDict(typed)
    /\ stage' = "shown"
    /\ UNCHANGED <<received, typed>>
    /\ UNCHANGED <<engineVars, searchVars, navVars, rootVars, viewVars, linkVars, callVars, modeVars>>

NextSerialize ==
    \/ Serialize
    \/ Deserialize
    \/ Reserialize

SpecSerialize == InitSerialize /\ [][NextSerialize]_vars

\* --------------------------- a listing that is a search in progress (SpecPoll)
\* the user enters folders, the search folder among them, and goes back
NextPoll ==
    \/ \E obj \in ViewObjects \cup {ObjModules} : OnItemActivated(obj)
    \/ \E index \in 0..MaxDepth : OnBreadcrumbClicked(index)

SpecPoll == InitNav /\ [][NextPoll]_vars

\* the window keeps handling the events that are pending
SpecPollFair == SpecPoll /\ WF_vars(NextPoll)

\* ------------------------------- ids handed to the pipeline parser (SpecParse)
\* base paths without their leading slash: empty, plain, with a token-shaped
\* segment in the middle, and with '<' and '>' in segments that are no tokens
ParseBases ==
    { <<>>, <<"a">>, <<"a", "/", "b">>,
      <<"<", "GroupBy", ":", "u", ">", "/", "b">>,
      <<"a", ">">>,
      <<"<", "x", "/", "b", ">">>,
      <<"a", "/", "<", "x", "/", "b", ">">> }

\* tokens <Cmd:Arg1[:Arg2]>, one of them with a colon inside Arg2
ParseTokens ==
    { Token(<<"GroupBy">>, Some(<<"u">>), None),
      Token(<<"Show">>, Some(<<"u">>), Some(<<"1">>)),
      Token(<<"Show">>, Some(<<"u">>), Some(<<"1", ":", "2">>)),
      Token(<<"Search">>, Some(<<"all">>), Some(<<"j1">>)) }

\* '/' + B + '/<token>' for each token in turn
RECURSIVE RootedId(_, _)
RootedId(b, ts) ==
    IF ts = <<>> THEN <<"/">> \o b
    ELSE RootedId(b, SubSeq(ts, 1, Len(ts) - 1)) \o <<"/">> \o TokenText(ts[Len(ts)])

ParseInputs ==
    { [base |-> b, tokens |-> ts, path_str |-> RootedId(b, ts)] :
        b \in ParseBases, ts \in UNION {[1..n -> ParseTokens] : n \in 0..MaxTokens} }

InitParse ==
    /\ EngineIdle /\ SearchInit /\ NavInit /\ ObjectsIdle
    /\ args \in ParseInputs
    /\ result = None

\* base, tokens = _parse_command_pipeline(path_str)
ParsePath ==
    /\ result = None
    /\ result' = Some(ParseCommandPipeline(args.path_str))
    /\ UNCHANGED <<engineVars, searchVars, navVars, rootVars, viewVars, linkVars,
                   objectVars, args, modeVars>>

NextParse == ParsePath

SpecParse == InitParse /\ [][NextParse]_vars

\* ------------------- links with command tokens and segments (SpecSegments)
ShowAliceToken == <<"<", "Show", ":", "userid", ":", "alice", ">">>

\* links that apply tokens at a root, below a folder, below a leaf, one after
\* the other and around host segments, and links whose segments match a
\* child by id, by title, or not at all
SegmentLinks ==
    { LinkOf(<<HostRoot, <<"P">>, ShowAliceToken, HostOther>>),
      LinkOf(<<<<"P">>, GroupByToken, ShowAliceToken>>),
      LinkOf(<<GroupByToken>>),
      LinkOf(<<HostOther, GroupByToken>>),
      LinkOf(<<<<"P">>, <<"J">>, ShowAliceToken>>),
      LinkOf(<<<<"P">>, HostRoot, GroupByToken>>),
      LinkOf(<<<<"P">>, HostRoot, <<"S">>>>),
      LinkOf(<<<<"p">>, <<"j">>>>),
      LinkOf(<<<<"P">>, <<"X">>, HostOther, GroupByToken>>),
      LinkOf(<<<<"X">>, <<"P">>>>),
      LinkOf(<<HostOther, <<"Q">>, <<"P">>, ShowAliceToken>>) }

NextSegments ==
    \/ \E full_path \in SegmentLinks : NavigateToPath(full_path)
    \/ \E index \in 0..MaxDepth : OnBreadcrumbClicked(index)
    \/ GroupByProperty("userid")

SpecSegments == InitNav /\ [][NextSegments]_vars

\* ----------------- every navigation operation of the browser (SpecBrowse)
\* a browser started with or without a link, whose user then activates
\* displayed tiles, groups the view and clicks breadcrumb parts
NextBrowse ==
    \/ \E full_path \in Links \cup SegmentLinks : NavigateToPath(full_path)
    \/ ActivateDisplayed
    \/ \E index \in 0..MaxDepth : OnBreadcrumbClicked(index)
    \/ GroupByProperty("userid")

SpecBrowse == InitNav /\ [][NextBrowse]_vars

\* ------------------------------- selection and details panel (SpecSelect)
\* what the handlers below leave alone
SelectFrame ==
    /\ sent' = <<>>
    /\ executed' = None
    /\ raised' = FALSE
    /\ failed' = {}
    /\ UNCHANGED <<nav_stack, current_host, current_port, current_objects,
                   breadcrumb, icon_store, populated>>
    /\ UNCHANGED <<engineVars, searchVars, rootVars, linkVars, objectVars, callVars>>

\* populate_objects(list(self.current_objects)): in icon mode clear_grid
\* resets selected_item and the tiles are built again; in table mode the
\* table is filled and the grid is left as it was
Repopulate(mode) ==
    /\ selected_item' = (IF mode THEN ClearedSelection ELSE selected_item)
    /\ rendered' = (IF mode /\ populated = "reply" THEN icon_store ELSE rendered)

\* mousePressEvent with the left button: pressed.emit(obj)
MousePressEvent(obj) == icon_mode /\ OnItemPressed(obj) /\ UNCHANGED icon_mode

\* _emit_deferred_click of the tile pressed last: clicked.emit(obj)
EmitDeferredClick(obj) ==
    /\ icon_mode
    /\ selected_item = Some(obj.id)
    /\ OnItemClicked(obj)
    /\ UNCHANGED icon_mode

\* ObjectItemWidget.contextMenuEvent: clicked.emit(obj), then the menu;
\* on_item_clicked sets the details panel and nothing else
ContextMenuEvent(obj) ==
    /\ icon_mode
    /\ populated = "reply"
    /\ current_details_obj' = Some(obj.id)
    /\ event' = UiEvent("menu", obj, 0)
    /\ UNCHANGED <<selected_item, rendered, icon_mode>>
    /\ SelectFrame

\* _apply_zoom: "if self.icon_mode: populate_objects(objs)"
ApplyZoom ==
    /\ Repopulate(icon_mode)
    /\ event' = UiEvent("zoom", NoObject, 0)
    /\ UNCHANGED <<current_details_obj, icon_mode>>
    /\ SelectFrame

\* on_table_toggle: flip the mode, populate_objects in the new mode
OnTableToggle ==
    /\ icon_mode' = ~icon_mode
    /\ Repopulate(icon_mode')
    /\ event' = UiEvent("toggle", NoObject, 0)
    /\ UNCHANGED current_details_obj
    /\ SelectFrame

\* _reflow_grid: in icon mode, populate_objects when the column count of
\* the resized viewport differs from the one the grid was built with
ReflowGrid(new_cols_differ) ==
    /\ Repopulate(icon_mode /\ new_cols_differ)
    /\ event' = UiEvent("reflow", NoObject, 0)
    /\ UNCHANGED <<current_details_obj, icon_mode>>
    /\ SelectFrame

\* a press outside every tile: _clear_selection_and_details
ClearSelectionAndDetails ==
    /\ selected_item' = None
    /\ current_details_obj' = None
    /\ event' = UiEvent("outside", NoObject, 0)
    /\ UNCHANGED <<rendered, icon_mode>>
    /\ SelectFrame

NextSelect ==
    \/ \E i \in 1..Len(DisplayedObjects) : MousePressEvent(DisplayedObjects[i])
    \/ \E i \in 1..Len(DisplayedObjects) : EmitDeferredClick(DisplayedObjects[i])
    \/ \E i \in 1..Len(DisplayedObjects) : ContextMenuEvent(DisplayedObjects[i])
    \/ ApplyZoom
    \/ OnTableToggle
    \/ \E new_cols_differ \in BOOLEAN : ReflowGrid(new_cols_differ)
    \/ ClearSelectionAndDetails
    \/ icon_mode /\ ActivateDisplayed
    \/ \E index \in 0..MaxDepth : icon_mode /\ OnBreadcrumbClicked(index)

SpecSelect == InitNav /\ [][NextSelect]_vars

\* ------------------------------- the column count of the grid (SpecColumns)
MaxWidth == 12

\* max(a, b)
Larger(a, b) == IF a >= b THEN a ELSE b

\* a column count that packs N tiles with N - 1 gaps into the width
ComputeColumnsPacked(viewport_width, left, right, hspacing, hint, layout_raises) ==
    LET spacing == IF layout_raises THEN 6 ELSE Larger(0, hspacing)
        available == IF layout_raises THEN Larger(0, viewport_width - 8)
                     ELSE Larger(0, viewport_width - (left + right))
        tile == Larger(1, hint)
    IN Larger(1, (available + spacing) \div (tile + spacing))

\* MainWindow._compute_columns(viewport_width), with the layout's margins
\* (left, right), its horizontalSpacing() (hspacing) and _tile_width_hint()
\* (hint) as further arguments; layout_raises:
\* the calls on the layout raise and the except branch sets the values
ComputeColumns(viewport_width, left, right, hspacing, hint, layout_raises) ==
    LET spacing == IF layout_raises THEN 6 ELSE Larger(0, hspacing)
        available == IF layout_raises THEN Larger(0, viewport_width - 8)
                     ELSE Larger(0, viewport_width - (left + right))
        tile == Larger(1, hint)
        columns == Larger(1, available \div (tile + spacing))
        total_width_needed == columns * tile + (columns - 1) * spacing
    IN IF available <= tile THEN 1
       ELSE IF total_width_needed > available /\ columns > 1 THEN columns - 1
       ELSE columns

ColumnInputs ==
    [viewport_width : 0..MaxWidth, left : 0..1, right : 0..1,
     spacing : -1..2, tile : 0..3, layout_raises : BOOLEAN]

InitColumns ==
    /\ EngineIdle /\ SearchInit /\ NavInit /\ ObjectsIdle
    /\ args \in ColumnInputs
    /\ result = None

\* new_cols = self._compute_columns(viewport_w)
CallComputeColumns ==
    /\ result = None
    /\ result' = Some(ComputeColumns(args.viewport_width, args.left, args.right,
                                     args.spacing, args.tile, args.layout_raises))
    /\ UNCHANGED <<engineVars, searchVars, navVars, rootVars, viewVars, linkVars,
                   objectVars, args, modeVars>>

NextColumns == CallComputeColumns

SpecColumns == InitColumns /\ [][NextColumns]_vars

\* ------------------------------- the caller's jobs on Slurm (SpecSlurm)
\* MY_USER_ID and the id of the "My Jobs" group of the root listing
MY_USER_ID == <<"1">>
MyJobsId == <<"/", "<", "ShowMy", ":">> \o MY_USER_ID \o <<">">>

\* path_str.startswith("/<ShowMy:")
StartsWithShowMy(path_str) ==
    Len(path_str) >= 4 /\ SubSeq(path_str, 1, 4) = <<"/", "<", "ShowMy", ":">>

\* SlurmProvider.get_my: squeue --me, the jobs of the caller; in this
\* specification the jobs of the partition are the caller's
GetMy == Objects(listing)

\* SlurmProvider.get_root_objects_payload: the partitions and My Jobs
SlurmRootObjects ==
    Objects(RootListing \o <<WPGroup(MyJobsId, <<"My Jobs">>, GroupIcon, Len(listing))>>)

\* SlurmProvider.get_objects_for_path
SlurmGetObjectsForPath(path_str) ==
    IF path_str = <<"/">> \/ path_str = <<>> THEN SlurmRootObjects
    ELSE IF StartsWithShowMy(path_str) THEN GetMy
    ELSE BuildObjectsForPath(path_str, None, GroupIcon)

\* the reply line for a GetObjects of the Slurm provider
SlurmReply(path_str) ==
    IF SlurmGetObjectsForPath(path_str).exc
    THEN ErrorPayload("Failed to list objects")
    ELSE ObjectsPayload(SlurmGetObjectsForPath(path_str).objects)

InitSlurm ==
    /\ listing \in {[i \in 1..Len(us) |-> Leaf(i, us[i])] : us \in Listings}
    /\ allowed = None
    /\ pc = "idle"
    /\ request = <<>>
    /\ reply = ObjectsPayload(<<>>)
    /\ reqBase = <<"/">>
    /\ reqTokens = <<>>
    /\ group = NoGroup
    /\ conn = [c \in Conns |-> NewConn]
    /\ SearchInit /\ NavInit /\ ObjectsIdle /\ NoCall

\* the browser lists the root of the provider
ListRoot ==
    /\ pc = "idle"
    /\ request' = <<"/">>
    /\ reply' = SlurmReply(<<"/">>)
    /\ pc' = "root"
    /\ UNCHANGED <<listing, allowed, reqBase, reqTokens, group, conn, searchVars, uiVars>>

\* the user opens the i-th tile of the root, when it is the My Jobs group:
\* load_children(remote_id), with base_path the id of the group
OpenMyJobs(i) ==
    /\ pc = "root"
    /\ i \in 1..Len(reply.objects)
    /\ reply.objects[i].id = StrV(MyJobsId)
    /\ group' = reply.objects[i]
    /\ reqBase' = reply.objects[i].id.s
    /\ request' = reply.objects[i].id.s
    /\ reply' = SlurmReply(reply.objects[i].id.s)
    /\ pc' = "my"
    /\ UNCHANGED <<listing, allowed, reqTokens, conn, searchVars, uiVars>>

\* _group_by_property(prop) on that view:
\* target_path = base_path.rstrip("/") + f"/<GroupBy:{prop}>"
GroupMyJobs(prop) ==
    /\ pc = "my"
    /\ reqTokens' = <<Token(<<"GroupBy">>, Some(prop), None)>>
    /\ request' = Rstrip(reqBase) \o <<"/", "<", "GroupBy", ":">> \o prop \o <<">">>
    /\ reply' = SlurmReply(request')
    /\ pc' = "grouped"
    /\ UNCHANGED <<listing, allowed, reqBase, group, conn, searchVars, uiVars>>

NextSlurm ==
    \/ ListRoot
    \/ \E i \in 1..2 : OpenMyJobs(i)
    \/ \E prop \in {Userid, Cpus} : GroupMyJobs(prop)

SpecSlurm == InitSlurm /\ [][NextSlurm]_vars

\* =================================================== properties of the engine
\* the listing the last request was composed over
BaseListing == ListForBase(reqBase)
ValueAt(i, prop) == DictGet(BaseListing[i], prop)

\* the subsequence of the base listing at the positions S, in listing order
RECURSIVE Pick(_, _)
Pick(S, i) ==
    IF i > Len(BaseListing) THEN <<>>
    ELSE (IF i \in S THEN <<BaseListing[i]>> ELSE <<>>) \o Pick(S, i + 1)

\* positions whose property is not None and stringifies to the token's value
Passing(t) ==
    {i \in 1..Len(BaseListing) :
        ValueAt(i, t.prop[1]) # NoneValue /\ Str(ValueAt(i, t.prop[1])) = t.value[1]}

\* positions that pass every one of the Show tokens ts
Kept(ts) == {i \in 1..Len(BaseListing) : \A j \in 1..Len(ts) : i \in Passing(ts[j])}

Front(ts) == SubSeq(ts, 1, Len(ts) - 1)
Last(ts) == ts[Len(ts)]
ShowToken(prop, value) == Token(<<"Show">>, Some(prop), Some(value))

\* the last request was B/T1/.../Tn/<GroupBy:P>, each Ti a Show token
GroupByRequest ==
    /\ pc = "replied"
    /\ reqTokens # <<>>
    /\ Last(reqTokens).cmd = <<"GroupBy">>
    /\ \A j \in 1..(Len(reqTokens) - 1) : IsShow(reqTokens[j])
GbProp == Last(reqTokens).prop[1]
Permitted == allowed = None \/ GbProp \in allowed[1]

\* the filtered leaves whose P is not None, and those that are one dict key
Members == {i \in Kept(Front(reqTokens)) : ValueAt(i, GbProp) # NoneValue}
ClassOf(i) == {j \in Members : KeyEq(ValueAt(j, GbProp), ValueAt(i, GbProp))}
Firsts == {MinOf(ClassOf(i)) : i \in Members}
\* the k-th position of Firsts in listing order
Kth(k) == CHOOSE i \in Firsts : Cardinality({j \in Firsts : j <= i}) = k

\* the group of the class first seen at position i, with the Show token
\* appended to the tokens ts
GroupOf(i, ts) ==
    WPGroup(JoinPath(reqBase, ts \o <<ShowToken(GbProp, Str(ValueAt(i, GbProp)))>>),
            Str(ValueAt(i, GbProp)), GroupIcon, Cardinality(ClassOf(i)))

GroupsOver(ts) ==
    /\ reply.kind = "objects"
    /\ Len(reply.objects) = Cardinality(Firsts)
    /\ \A k \in 1..Len(reply.objects) : reply.objects[k] = GroupOf(Kth(k), ts)

C2_GroupIdRoundTrip ==
    (pc = "drilled" /\ \A j \in 1..(Len(reqTokens) - 1) : IsShow(reqTokens[j]))
        => /\ reply.kind = "objects"
           /\ Len(reply.objects) = group.objects.n
           /\ reply.objects =
                Pick({i \in Kept(Front(reqTokens)) :
                        /\ ValueAt(i, GbProp) # NoneValue
                        /\ Str(ValueAt(i, GbProp)) = group.title.s}, 1)

\* the request is X/<GroupBy:P>/<Show:P:v>, X a base followed by Show filters
AdjacentPair ==
    /\ pc = "replied"
    /\ Len(reqTokens) >= 2
    /\ reqTokens[Len(reqTokens) - 1].cmd = <<"GroupBy">>
    /\ IsShow(Last(reqTokens))
    /\ reqTokens[Len(reqTokens) - 1].prop = Last(reqTokens).prop
    /\ \A j \in 1..(Len(reqTokens) - 2) : IsShow(reqTokens[j])

\* C3: for a base X (and X followed by Show filters), the id
\* X/<GroupBy:P>/<Show:P:v> is answered exactly as X/<Show:P:v> is, and the
\* answer is the leaves that pass the filters, not groups.
C3_Normalization ==
    AdjacentPair
        => LET dropped == SubSeq(reqTokens, 1, Len(reqTokens) - 2) \o <<Last(reqTokens)>>
           IN /\ reply = HandleMessage(GetObjectsMessage(JoinPath(reqBase, dropped)), FALSE)
              /\ reply = ObjectsPayload(Pick(Kept(dropped), 1))

\* the drill-through of a base returned a leaf and left another out
C3_Witness ==
    /\ AdjacentPair /\ Len(reqTokens) = 2
    /\ Len(reply.objects) = 1 /\ Len(listing) = 2
    /\ reply.objects[1].class = StrV(<<"WPSlurmJob">>)

RECURSIVE SumObjects(_)
SumObjects(objs) == IF objs = <<>> THEN 0 ELSE Head(objs).objects.n + SumObjects(Tail(objs))

\* C4 as stated: over GroupBy(P) on a listing, the objects fields sum to the
\* number of members with a non-null P, and there are as many groups as
\* distinct stringified non-null values.
C4_CountingLaw ==
    (GroupByRequest /\ Len(reqTokens) = 1 /\ Permitted /\ reply.kind = "objects")
        => /\ SumObjects(reply.objects) = Cardinality(Members)
           /\ Len(reply.objects) = Cardinality({Str(ValueAt(i, GbProp)) : i \in Members})

\* C5: the reply to Show(P, v) is exactly the members whose P is not None
\* and stringifies to v; over all v the replies are disjoint and cover the
\* members with a non-null P, and a member without P is in none of them.
ShowRequest == pc = "replied" /\ Len(reqTokens) = 1 /\ IsShow(reqTokens[1])
ShowValues == {Str(v) : v \in UserValues \ {NoneValue}} \cup {<<"2">>}
ShowReply(prop, v) ==
    HandleMessage(GetObjectsMessage(JoinPath(reqBase, <<ShowToken(prop, v)>>)), FALSE)
HitsOf(i, prop) ==
    {v \in ShowValues :
        \E k \in 1..Len(ShowReply(prop, v).objects) :
            ShowReply(prop, v).objects[k] = BaseListing[i]}

C5_ShowPartition ==
    ShowRequest
        => /\ reply = ObjectsPayload(Pick(Passing(reqTokens[1]), 1))
           /\ \A i \in 1..Len(BaseListing) :
                HitsOf(i, reqTokens[1].prop[1]) =
                    IF ValueAt(i, reqTokens[1].prop[1]) = NoneValue THEN {}
                    ELSE {Str(ValueAt(i, reqTokens[1].prop[1]))}

\* a Show over a listing with a member that has no userid and an int member
C5_Witness ==
    /\ ShowRequest /\ reqTokens[1].prop = Some(Userid)
    /\ Len(listing) = 2 /\ Len(reply.objects) = 1
    /\ listing[1].userid = NoneValue /\ listing[2].userid = IntV(1)

\* C6 as stated: with a token before the trailing one that is not a Show
\* with a value (after normalization), the reply is the empty list.
Normal == NormalizeGroupbyShowTokens(reqTokens)
BadIntermediate ==
    /\ pc = "replied"
    /\ Len(Normal) >= 2
    /\ \E j \in 1..(Len(Normal) - 1) : ~IsShow(Normal[j])

C6_OnlyShowsBeforeLast ==
    BadIntermediate => reply = ObjectsPayload(<<>>)

\* C6 amended: the one token tolerated is the nearest GroupBy before a
\* trailing Show on the same property, when every other token before the
\* trailing one is a Show; then the reply is the leaves that pass all Shows.
Tolerated ==
    /\ IsShow(Last(Normal))
    /\ \E g \in 1..(Len(Normal) - 1) :
        /\ Normal[g].cmd = <<"GroupBy">>
        /\ Normal[g].prop = Last(Normal).prop
        /\ \A j \in 1..(Len(Normal) - 1) : j # g => IsShow(Normal[j])

C6_IntermediateTokens ==
    BadIntermediate
        => reply = IF Tolerated
                   THEN ObjectsPayload(Pick(Kept(SelectSeq(Normal, IsShow)), 1))
                   ELSE ObjectsPayload(<<>>)

\* a GroupBy before a Show on another property empties a listing that has
\* a leaf the Show alone would return
C6_Witness ==
    /\ BadIntermediate /\ ~Tolerated
    /\ Len(reqTokens) = 2 /\ IsShow(Last(reqTokens))
    /\ Passing(Last(reqTokens)) # {}
    /\ reply = ObjectsPayload(<<>>)

\* C7 as stated: a GetObjects id with command tokens is answered with
\* {objects: [...]} and never with an error, whatever the property values; a
\* GroupBy outside the whitelist gives the empty list.
C7_NeverProtocolError ==
    (pc \in {"replied", "drilled"} /\ reqTokens # <<>>)
        => /\ reply.kind = "objects"
           /\ (GroupByRequest /\ ~Permitted) => reply.objects = <<>>

\* ================================================== properties of the handler
Answered(c) == conn[c].pc = "done" /\ conn[c].incoming.json # "eof"

\* the reply a handler in mid-request is about to write is a payload whether
\* or not its backend raises: its step depends on no other connection
WillAnswer(c) ==
    \A fails \in BOOLEAN :
        HandleMessage(conn[c].incoming, fails).kind \in {"objects", "info", "error"}

\* C8: a handler that received a line writes exactly one payload and
\* finishes; no exception ends it unanswered; a backend failure is reported
\* as an error payload on that line; and whatever the other connections do,
\* a handler can take its next step.
C8_OneReplyPerLine ==
    \A c \in Conns :
        /\ conn[c].pc # "crashed"
        /\ Answered(c) => Len(conn[c].out) = 1
        /\ (Answered(c) /\ conn[c].failed) => conn[c].out[1].kind = "error"
        /\ conn[c].pc = "accepted" => ENABLED ReadLine(c, ServeLines)
        /\ conn[c].pc = "parsed" => WillAnswer(c)

\* one handler reported a backend failure while the other was in mid-request
C8_Witness ==
    /\ Answered("c1") /\ conn["c1"].failed
    /\ conn["c1"].out = <<ErrorPayload("Failed to list objects")>>
    /\ conn["c2"].pc = "parsed"

\* what the request carries, read off the JSON itself
Carries(m, name) == \E k \in CandidateKeys : m.fields[k] = StrV(<<name>>)
NoRecognizedMethod(m) ==
    /\ m.json \in {"str", "dict", "other"}
    /\ \A name \in {"GetRootObjects", "GetInfo", "GetObjects", "Search"} : ~Carries(m, name)
HasStringId(m) == \E i \in 1..Len(IdKeys) : m.fields[IdKeys[i]].t = "str"
\* the bare JSON string of a method name
BareString(m, name) == m.json = "str" /\ m.text = <<name>>
\* the key GetRootObjects / GetInfo with a value that is null or true
LegacyForm(m, name) ==
    m.json = "dict" /\ m.fields[name] # Absent
                    /\ (m.fields[name] = NoneValue \/ Truthy(m.fields[name]))
RootOrInfo(m) ==
    \E name \in {"GetRootObjects", "GetInfo"} :
        Carries(m, name) \/ BareString(m, name) \/ LegacyForm(m, name)

InvalidJsonAnswered(c) ==
    conn[c].incoming.json = "invalid" => conn[c].out = <<ErrorPayload("Invalid JSON")>>

C10_SearchIsDispatched ==
    \A c \in Conns :
        (Answered(c) /\ conn[c].incoming = Method("Search"))
            => /\ conn[c].out[1].kind = "objects"
               /\ Len(conn[c].out[1].objects) = 1
               /\ conn[c].out[1].objects[1].class = StrV(<<"WPLmodSearchHandle">>)

\* ======================================== properties of the search protocol
Initial(c) == caller[c].search_handle = None /\ caller[c].pc # "idle"
Polling(c) == caller[c].search_handle # None
WorkersFor(id) == {i \in 1..Len(workers) : workers[i].search_id = id}
Known(id) == id \in DOMAIN search_status
IssuedIds == {h.id : h \in handles}

AnswersWhileRunning(c) ==
    /\ Polling(c) /\ caller[c].pc = "reply" /\ caller'[c].pc = "returned"
    /\ search_status[caller[c].search_id] = "running"

C13_UnknownHandleIgnored ==
    /\ ForeignId \notin DOMAIN search_status
    /\ ForeignId \notin DOMAIN search_results
    /\ WorkersFor(ForeignId) = {}
    /\ \A c \in Callers :
          (Polling(c) /\ caller[c].search_id = ForeignId /\ caller[c].pc = "returned")
              => caller[c].out = <<>>

\* the poll of c answers in this step, having found the status done
AnswersWhenDone(c) ==
    /\ Polling(c) /\ caller'[c].pc = "returned"
    /\ caller[c].pc \in {"check_done", "reply"}
    /\ Known(caller[c].search_id) /\ search_status[caller[c].search_id] = "done"

\* C14: a poll that finds status[H] = done returns 1 + len(results[H])
\* objects: a WPLmodSearchProgress with state done and objects =
\* len(results[H]), then results[H] in stored order.
C14_DonePayload ==
    [][\A c \in Callers :
          AnswersWhenDone(c)
              => LET out == caller'[c].out
                     results == search_results[caller[c].search_id]
                 IN /\ Len(out) = 1 + Len(results)
                    /\ out[1].class = "WPLmodSearchProgress"
                    /\ out[1].state = "done"
                    /\ out[1].objects = Len(results)
                    /\ \A k \in 1..Len(results) : out[k + 1] = results[k]]_vars

\* a poll returned the completion progress and the two modules found
C14_Witness ==
    /\ Polling("a") /\ caller["a"].pc = "returned"
    /\ Len(caller["a"].out) = 3
    /\ caller["a"].out[1].state = "done" /\ caller["a"].out[1].objects = 2
    /\ caller["a"].out[2].class = "WPLmodSoftware"

\* the last answer c received is the completion payload
DoneReturned(c) ==
    /\ Polling(c) /\ caller[c].pc = "returned"
    /\ caller[c].out # <<>> /\ caller[c].out[1].state = "done"

\* C15 as stated: once a poll for H has returned done, H stays done with
\* the results that poll returned: the status does not go back to running
\* and the results are not emptied or replaced.
C15_CompletionStable ==
    \A c \in Callers :
        DoneReturned(c)
            => /\ search_status[caller[c].search_id] = "done"
               /\ search_results[caller[c].search_id] = Tail(caller[c].out)

\* C16 as stated: every started search terminates, also when the command
\* fails, so a client that keeps polling with the handle eventually
\* receives a progress object with state done.
C16_PollerSeesDone == (handles # {}) ~> DoneReturned("a")

\* ------------------------------------------------ navigation claims (SpecNav)
\* the step handles the activation of an object / a breadcrumb click
Activated == event'.kind = "activate"
Clicked == event'.kind = "click"
ActivatedObject == event'.obj
PushedOne ==
    /\ Len(nav_stack') = Len(nav_stack) + 1
    /\ SubSeq(nav_stack', 1, Len(nav_stack)) = nav_stack
Top(stack) == stack[Len(stack)]

\* C17: activating an object whose openaction holds an objectbrowser entry
\* pushes exactly one entry with the entry's host and port (a missing field
\* keeps the current value) and remote_id "/", makes that endpoint current
\* and loads the root listing of that endpoint, whatever the target is.
C17_SwitchesEndpoint ==
    [][(Activated /\ BrowserEntries(ActivatedObject) # {}) =>
        /\ PushedOne
        /\ Top(nav_stack').host = NextHost(ActivatedObject)
        /\ Top(nav_stack').port = IntStr(NextPort(ActivatedObject))
        /\ Top(nav_stack').remote_id = <<"/">>
        /\ current_host' = NextHost(ActivatedObject)
        /\ current_port' = NextPort(ActivatedObject)
        /\ current_objects' = ObjectsRequest(<<"/">>, NextHost(ActivatedObject),
                                             NextPort(ActivatedObject))]_vars

\* the entry an object without endpoint switch is entered with
EnteredInPlace(obj) ==
    /\ obj.title # None
    /\ PushedOne
    /\ Top(nav_stack') = NavEntry(obj.id, HumanTitle(obj.title[1], obj.id),
                                  current_host, IntStr(current_port), obj.id)
    /\ current_host' = current_host
    /\ current_port' = current_port
    /\ current_objects' = ObjectsRequest(obj.id, current_host, current_port)
    /\ sent' = <<ObjectsRequest(obj.id, current_host, current_port)>>

C20_BreadcrumbClick ==
    [][Clicked =>
        LET k == event'.index
        IN /\ k \in 0..Len(nav_stack)
           /\ nav_stack' = SubSeq(nav_stack, 1, k)
           /\ IF k = 0
              THEN /\ current_host' = root_host
                   /\ current_port' = root_port
                   /\ current_objects' = RootRequest(root_host, root_port)
                   /\ sent' = <<RootRequest(root_host, root_port)>>
              ELSE /\ current_host' = nav_stack[k].host
                   /\ IntStr(current_port') = nav_stack[k].port
                   /\ current_objects' =
                          ObjectsRequest(nav_stack[k].remote_id,
                                         nav_stack[k].host, current_port')
                   /\ sent' = <<current_objects'>>]_vars

\* a click went back to an entry that had switched to the other endpoint
C20_Witness ==
    /\ event.kind = "click"
    /\ event.index = 1
    /\ Len(nav_stack) = 1
    /\ nav_stack[1].remote_id = <<"/">>
    /\ nav_stack[1].id = PlainId
    /\ current_host = OtherHost
    /\ current_port = OtherPort
    /\ current_objects = ObjectsRequest(<<"/">>, OtherHost, OtherPort)

\* ------------------------------------------- worker starts (SpecSearch)
\* a polling call that has started a worker for an id whose handle was
\* issued: the initial call that issued it had started the id's first worker
SecondStart(c) ==
    Polling(c) /\ caller[c].started /\ caller[c].search_id \in IssuedIds

\* C30: for each handle id at most one background worker is ever started,
\* under every interleaving of concurrent search() calls and worker
\* completion: no call starts a worker for an id that already had one.
C30_OneWorkerPerHandle == \A c \in Callers : ~SecondStart(c)

\* ------------------------------------------ selection and icons (SpecView)
\* the step pushes, groups, clicks a breadcrumb part or the root, or switches
ListingChanged == nav_stack' # nav_stack \/ event'.kind \in {"click", "group"}

C25_IconOfOwnProvider ==
    rendered # None =>
        rendered[1] = Endpoint(current_objects.host, current_objects.port)

\* ------------------------------------------------- deep-link claims (SpecLink)
\* the browser was started with a link and every call it made was answered
LinkWalked == event.kind = "link" /\ failed = {} /\ ~raised
LinkSegs == SplitSlash(deeplink[1])
HostTokens(segs) == SelectSeq(segs, IsHostToken)
TokenHost(seg) == ParseHostToken(seg).h[1]
TokenPort(seg) == ParseHostToken(seg).p[1]
IsSynthetic(entry) == entry.id = <<"/">> /\ entry.remote_id = <<"/">>

\* C22: in deep-link navigation the first [host:port] segment replaces the
\* root endpoint, and every later [host:port] segment pushes exactly one
\* synthetic entry {id "/", remote_id "/", host, port, title = RootName of
\* the new provider} and makes that endpoint current, also when two
\* [host:port] segments follow each other directly.
C22_HostSegments ==
    (LinkWalked /\ IsHostToken(LinkSegs[1])) =>
        LET toks == HostTokens(LinkSegs)
        IN /\ root_host = TokenHost(toks[1])
           /\ root_port = TokenPort(toks[1])
           /\ current_host = TokenHost(toks[Len(toks)])
           /\ current_port = TokenPort(toks[Len(toks)])
           /\ SelectSeq(nav_stack, IsSynthetic) =
                  [i \in 1..(Len(toks) - 1) |->
                      NavEntry(<<"/">>,
                               RootNameOf(TokenHost(toks[i + 1]), TokenPort(toks[i + 1])),
                               TokenHost(toks[i + 1]), IntStr(TokenPort(toks[i + 1])),
                               <<"/">>)]

\* the link ends in an open-action token behind the segments of a target
EndsInOpenAction ==
    /\ Len(LinkSegs) >= 2
    /\ IsOpenActionToken(LinkSegs[Len(LinkSegs)])
OpenActionTarget ==
    LET seg == LinkSegs[Len(LinkSegs) - 1]
    IN CHOOSE o \in {ObjS, ObjT, ObjE} : o.title[1] = seg
\* the same link with the other spelling of the token
Twin ==
    LinkOf(SubSeq(LinkSegs, 1, Len(LinkSegs) - 1)
           \o <<IF LinkSegs[Len(LinkSegs)] = OpenActionBracket
                THEN OpenActionAngle ELSE OpenActionBracket>>)

\* C24: a link that ends in [openaction] or <OpenAction> behind the segment
\* of object O performs O's open action: an objectbrowser action pushes an
\* entry with remote_id "/" on the target endpoint and loads its root, any
\* other action is executed; the two spellings behave alike, for enterable
\* objects and for leaves.
C24_OpenActionPerformed ==
    (LinkWalked /\ EndsInOpenAction) =>
        LET O == OpenActionTarget
            first == O.openaction[1][1]
            twin == WalkPath(Twin, {})
        IN /\ nav_stack = twin.nav
           /\ executed = twin.executed
           /\ current_objects = twin.objs
           /\ IF Lower(first.action) = <<"objectbrowser">>
              THEN /\ nav_stack # <<>>
                   /\ Top(nav_stack).remote_id = <<"/">>
                   /\ Top(nav_stack).host = first.hostname[1]
                   /\ current_host = first.hostname[1]
                   /\ current_port = first.port[1]
                   /\ current_objects =
                          ObjectsRequest(<<"/">>, first.hostname[1], first.port[1])
              ELSE executed = Some(first.action)

IsListingRequest(req) == req.method \in {"GetObjects", "GetRootObjects"}

\* C28: a failed provider call during any browser operation (load_root,
\* load_children or a step of deep-link navigation) is treated as an empty
\* listing: the operation does not raise and the listing of the step whose
\* call failed is shown empty.
C28_FailureIsEmptyListing ==
    /\ ~raised
    /\ LET listings == SelectSeq(sent, IsListingRequest)
       IN (listings # <<>> /\ listings[Len(listings)].method \in failed)
          => populated = "empty"

\* --------------------------------------- link round trip (SpecRoundTrip)
\* the entries of two stacks agree in id, host, port and remote_id
SameEntries(a, b) ==
    /\ Len(a) = Len(b)
    /\ \A i \in 1..Len(a) :
          /\ a[i].id = b[i].id
          /\ a[i].host = b[i].host
          /\ a[i].port = b[i].port
          /\ a[i].remote_id = b[i].remote_id

\* C23: for every nav state N reachable by browser operations, navigating a
\* fresh browser to the link built from N reproduces N: the same root
\* endpoint and the same sequence of nav entries (id, host, port,
\* remote_id), the provider listings being unchanged.
C23_LinkRoundTrip ==
    [][event'.kind = "shortcut" =>
        /\ root_host' = root_host
        /\ root_port' = root_port
        /\ SameEntries(nav_stack', nav_stack)]_vars

\* --------------------------------- received objects (SpecReconstruct)
\* C26: once an object dict received in a listing has gone through
\* _to_typed_objects and back through _obj_to_dict, the resulting dict holds
\* every key of the received dict with the same value
C26_ExtrasKept ==
    stage = "shown"
        => \A k \in DOMAIN received : k \in DOMAIN shown /\ shown[k] = received[k]

\* an object of a class the browser has a branch for, with extras that the
\* branch does not pass on, has been converted and read back
C26_Witness ==
    /\ stage = "shown"
    /\ Get(received, "class", NoneValue) = StrV(<<"WPSlurmPartition">>)
    /\ "runningjobs" \in DOMAIN received

\* ----------------------------------- provider objects (SpecSerialize)
\* C27: for an object of a class that offers from_dict, built as its provider
\* builds it, from_dict(d).to_dict() equals d = to_dict() of the object
C27_SerializationRoundTrip == stage = "shown" => shown = received

\* --------------------------------------- search polling (SpecPollFair)
\* the displayed listing holds the search handle
HandleListed ==
    \E i \in 1..Len(DisplayedObjects) : DisplayedObjects[i] = TileOf(IssuedHandle)

\* the last UI event sent a request that carries a search_handle
PollSent == \E i \in 1..Len(sent) : "search_handle" \in PayloadKeys(sent[i])

\* C29: when the listing the browser received holds a WPLmodSearchHandle, the
\* browser goes on to send the request again with search_handle set
C29_HandleIsPolled == HandleListed ~> PollSent

\* ------------------------------------------- the parse rule (SpecParse)
\* C31: for a rooted id made of a base path B, whose last segment is not of the
\* form <...>, followed by token segments, _parse_command_pipeline returns '/' + B
\* ('/' for the empty B) and exactly those tokens in their order
C31_ParseRule ==
    result # None
        => result[1] = <<<<"/">> \o args.base, args.tokens>>

\* ------------------------------- tokens and segments of a link (SpecSegments)
\* the walk of navigate_to_path over the first n segments
RECURSIVE WalkTo(_, _, _, _)
WalkTo(st, segs, idx, n) ==
    IF idx > n \/ st.done THEN st
    ELSE WalkTo(WalkStep(st, segs, idx), segs, idx + 1, n)

\* the window once the first n segments of the link were handled
AfterSegments(n) == WalkTo(WalkStart(failed), LinkSegs, 1, n)

\* the remote id the browser is at: that of the top entry, "/" at the root
RemoteOf(nav) == IF nav = <<>> THEN <<"/">> ELSE nav[Len(nav)].remote_id

IsPlainCommand(seg) == IsCommandToken(seg) /\ ~IsOpenActionToken(seg)

ExampleLink == LinkOf(<<HostRoot, <<"P">>, ShowAliceToken, HostOther>>)

\* C32: in deep-link navigation every command token other than <OpenAction>
\* pushes exactly one entry on the current endpoint whose remote_id is the
\* current remote id, '/' and the token, and fetches the listing of that
\* remote id; the link /[h1]/P/<Show:userid:alice>/[h2]/ ends with the entries
\* of P, of /p/<Show:userid:alice> and a synthetic root entry on h2, showing
\* h2's root listing
C32_CommandTokens ==
    event.kind = "link" =>
        /\ \A i \in 1..Len(LinkSegs) :
              LET before == AfterSegments(i - 1)
                  after == AfterSegments(i)
                  seg == LinkSegs[i]
                  target == Rstrip(RemoteOf(before.nav)) \o <<"/">> \o seg
              IN (~before.done /\ IsPlainCommand(seg)) =>
                    /\ Len(after.nav) = Len(before.nav) + 1
                    /\ SubSeq(after.nav, 1, Len(before.nav)) = before.nav
                    /\ Top(after.nav).remote_id = target
                    /\ Top(after.nav).host = before.ch
                    /\ Top(after.nav).port = IntStr(before.cp)
                    /\ after.sent = Append(before.sent,
                                           ObjectsRequest(target, before.ch, before.cp))
        /\ (LinkWalked /\ deeplink = Some(ExampleLink)) =>
              /\ Len(nav_stack) = 3
              /\ nav_stack[1].remote_id = PlainId
              /\ nav_stack[2].remote_id = PlainId \o <<"/">> \o ShowAliceToken
              /\ IsSynthetic(nav_stack[3])
              /\ nav_stack[3].host = OtherHost
              /\ nav_stack[3].port = IntStr(OtherPort)
              /\ current_objects = RootRequest(OtherHost, OtherPort)

IsNormalSegment(seg) ==
    ~IsHostToken(seg) /\ ~IsCommandToken(seg) /\ ~IsOpenActionToken(seg)

\* C33: in deep-link navigation a normal segment matches the first child, in
\* listing order, of the current remote id whose id ends with '/' + seg or
\* whose title equals seg; when no child matches, navigation stops: no later
\* segment is processed, and the nav stack and the current endpoint stay as
\* they were before the unmatched segment
C33_SegmentMatch ==
    (event.kind = "link" /\ "GetObjects" \notin failed) =>
        \A i \in 1..Len(LinkSegs) :
            LET before == AfterSegments(i - 1)
                after == AfterSegments(i)
                seg == LinkSegs[i]
                children == Children(before.ch, before.cp, RemoteOf(before.nav))
                hits == {k \in 1..Len(children) : Matches(children[k], seg)}
            IN (~before.done /\ IsNormalSegment(seg)) =>
                  IF hits = {}
                  THEN /\ after.done
                       /\ nav_stack = before.nav
                       /\ current_host = before.ch
                       /\ current_port = before.cp
                  ELSE after.last_obj = Some(children[MinOf(hits)])

\* ------------------------------------------ endpoint and view invariants
\* the endpoint a stack and a root endpoint stand for
AtEndpointOf(nav, host, port, rh, rp) ==
    IF nav = <<>>
    THEN host = rh /\ port = rp
    ELSE host = Top(nav).host /\ IntStr(port) = Top(nav).port

\* C36: after every browser operation (activation, group-by, breadcrumb
\* click, each step of a deep-link navigation) the current endpoint is the
\* host and port stored in the top nav entry, or the root endpoint when the nav
\* stack is empty
C36_EndpointInvariant ==
    /\ AtEndpointOf(nav_stack, current_host, current_port, root_host, root_port)
    /\ event.kind = "link" =>
          \A i \in 0..Len(LinkSegs) :
              LET st == AfterSegments(i)
              IN AtEndpointOf(st.nav, st.ch, st.cp, st.rh, st.rp)

\* the user went back, by a breadcrumb click, to an entry of the other provider
C36_Witness ==
    /\ event.kind = "click"
    /\ nav_stack # <<>>
    /\ Top(nav_stack).host = OtherHost
    /\ current_host = OtherHost
    /\ root_host = PROVIDER_HOST

\* C37: after every navigation operation that completes, the displayed
\* listing is the reply to fetching the top nav entry's remote_id at the
\* current endpoint, or the root listing when the nav stack is empty
C37_ViewMatchesStack ==
    (~raised /\ event.kind # "start") =>
        IF nav_stack = <<>>
        THEN current_objects = RootRequest(current_host, current_port)
        ELSE current_objects =
                 ObjectsRequest(Top(nav_stack).remote_id, current_host, current_port)

\* ------------------------------------------------ Search is not composable
IsSearch(t) == t.cmd = <<"Search">>

HasSearch(tokens) == \E i \in 1..Len(tokens) : IsSearch(tokens[i])

\* the pipeline without its Search tokens
WithoutSearch(tokens) == SelectSeq(tokens, LAMBDA t : ~IsSearch(t))

\* C34: every pipeline that holds a Search token together with at least one
\* other token, at any position and also after the GroupBy/Show normalization,
\* is answered with the empty object list
C34_SearchNotComposed ==
    (pc = "replied" /\ HasSearch(reqTokens) /\ Len(reqTokens) >= 2) =>
        /\ Len(NormalizeGroupbyShowTokens(ParseCommandPipeline(request)[2])) >= 2
        /\ reply = ObjectsPayload(<<>>)

\* a pipeline with a Search token in it was answered with nothing, while the
\* same pipeline without the Search token lists objects
C34_Witness ==
    /\ pc = "replied"
    /\ HasSearch(reqTokens)
    /\ Len(reqTokens) >= 2
    /\ reply = ObjectsPayload(<<>>)
    /\ LET other == HandleMessage(GetObjectsMessage(
                         JoinPath(reqBase, WithoutSearch(reqTokens))), FALSE)
       IN other.kind = "objects" /\ other.objects # <<>>

\* ------------------------------------------------ grouping the My Jobs view
\* C35: '/<ShowMy:USER>/<GroupBy:P>', the id the browser requests when the
\* user groups the My Jobs view, returns only WPGroup objects whose objects
\* counts sum to the number of the caller's jobs with non-null P
C35_MyJobsGrouped ==
    pc = "grouped" =>
        /\ reply.kind = "objects"
        /\ \A i \in 1..Len(reply.objects) : reply.objects[i].class = StrV(<<"WPGroup">>)
        /\ SumObjects(reply.objects) =
              Len(SelectSeq(listing, LAMBDA o : DictGet(o, reqTokens[1].prop[1]) # NoneValue))

\* ------------------------------------------------ selection and details
\* C38: whenever the details panel shows an object, the selected tile exists
\* and is the tile of that object, after any sequence of left clicks, right
\* clicks, zooms, table/icon toggles, grid reflows and navigations
C38_SelectionMatchesDetails ==
    current_details_obj # None => selected_item = current_details_obj

\* ------------------------------------------------ the column count
\* the width left between the margins, clamped at 0
Available == Larger(0, args.viewport_width - (args.left + args.right))

\* the call is one the claim speaks of: the layout answered, spacing >= 0,
\* tile width >= 1
ColumnsCase ==
    /\ result # None
    /\ ~args.layout_raises
    /\ args.spacing >= 0
    /\ args.tile >= 1

\* C39: for every viewport width >= 0, margins and spacing >= 0 and tile
\* width >= 1, _compute_columns returns
\* max(1, floor((w - left - right) / (tile + spacing))) with the difference
\* clamped at 0, and the result is always >= 1
C39_ColumnCount ==
    /\ ColumnsCase =>
          result[1] = Larger(1, Available \div (args.tile + args.spacing))
    /\ result # None => result[1] >= 1

\* several columns were returned where one more tile, without its trailing
\* gap, would still have fitted
C39_Witness ==
    /\ ColumnsCase
    /\ result[1] >= 2
    /\ (result[1] + 1) * args.tile + result[1] * args.spacing <= Available

====
